---- MODULE Spec2Model ----
(***************************************************************************)
(* Model of the video-processor pipeline: the FrameBuffer ring             *)
(* (frame_buffer.cpp), the Pipeline orchestrator (pipeline.cpp) and the    *)
(* three worker threads of the command-line pipeline (main.cpp), and the    *)
(* processing stages the processing thread owns: the Upscaler              *)
(* (upscaler.cpp), DnnSuperRes (dnn_super_res.cpp), TemporalConsistency   *)
(* (temporal_consistency.cpp), AdaptiveSharpening                          *)
(* (adaptive_sharpening.cpp) and SelectiveBilateral                        *)
(* (selective_bilateral.cpp).                                              *)
(***************************************************************************)
EXTENDS Integers, Sequences, FiniteSets, TLC

\* ---------------------------------------------------------------- bounds
MaxCapacity == 2        \* ring capacities range over 1..MaxCapacity
MaxFrames == 3          \* number of distinct non-empty frames a source yields
NThreads == 3           \* threads calling into one ring in the ring harness
MaxHeld == 2            \* popped frames a consumer holds on to at a time
MaxCalls == 4           \* frames of a stream handed to TemporalConsistency::process

\* ---------------------------------------------------------------- names
Threads == 1 .. NThreads
RAW == 1                \* raw_buffer of main.cpp / m_buffer of Pipeline::Impl
PROCESSED == 2          \* processed_buffer of main.cpp
Rings == {RAW, PROCESSED}
NoFrame == 0            \* cv::Mat(): an empty frame
Frames == 1 .. MaxFrames
Capture == 1            \* the capture thread
Processing == 2         \* the processing thread
Display == 3            \* the display thread
Workers == {Capture, Processing, Display}
Main == 0               \* the thread that owns the Pipeline / runs main()
StorageIds == 1 .. (MaxCapacity + MaxHeld + 2)     \* pixel buffers

VARIABLES
    rings,      \* [Rings -> FrameBuffer object]
    call,       \* [Threads -> the blocking ring call a thread is suspended in]
    event,      \* the operation performed by the last step and its result
    nextFrame,  \* next frame the source will deliver
    accepted,   \* [Rings -> frames of successful pushes since construction/clear]
    returned,   \* [Rings -> frames of successful pops since construction/clear]
    rejected,   \* frames whose pushFrame returned false
    prog,       \* which program runs: "ring" harness, "pipeline" or "cli"
    wpc,        \* [Workers -> position of a worker thread in its loop]
    held,       \* [Workers -> the frame variable of a worker thread]
    m_camera, m_upscaler, m_display, m_buffer,  \* Pipeline::Impl components
    m_config,   \* Pipeline::Impl::m_config
    m_running,  \* Pipeline::Impl::m_running
    thr,        \* [Workers -> m_capture_thread, m_processing_thread, m_display_thread]
    ctl,        \* position of the thread that calls initialize/start/stop
    initRet,    \* return value of the last initialize()
    stopWasRunning, \* m_running at the entry of the stop() in progress
    stopReturned,   \* a stop() of a running pipeline has returned, no start() since
    pipeline,   \* the Pipeline object that owns the Impl: its own members
    g_running,  \* main.cpp global control flag
    source_open,    \* Camera::isOpened() of the source of main.cpp
    g_frames_captured, g_frames_processed, g_frames_displayed, g_frames_dropped,
    gpu_available,  \* Upscaler::isGPUAvailable() on this machine
    upscaler,   \* an Upscaler object
    superres,   \* a DnnSuperRes object used on its own (test_enhancements.cpp)
    upEvent,    \* the last call on upscaler / superres, its arguments and result
    temporal,   \* a TemporalConsistency object
    tcEvent,    \* the last call on temporal, its arguments and result
    tcFrames,   \* number of stream frames handed to temporal.process
    tcShots,    \* number of scene changes temporal.process has detected
    sharpening, \* an AdaptiveSharpening object
    bilateral,  \* a SelectiveBilateral object
    sbCall,     \* the bilateral.process call in progress
    fxEvent,    \* the last call on sharpening / bilateral and its result
    heap,       \* [pixel buffer -> the picture it holds]
    producer,   \* the pixel buffer of the capture thread's frame
    popped,     \* the popped frames the consumer holds
    snap        \* [pixel buffer -> the picture copied into it by pushFrame]

ringVars == <<rings, call, event, nextFrame, accepted, returned, rejected>>
workerVars == <<wpc, held>>
pipeVars == <<m_camera, m_upscaler, m_display, m_buffer, m_config, m_running,
              thr, ctl, initRet, stopWasRunning, stopReturned, pipeline>>
cliVars == <<g_running, source_open, g_frames_captured, g_frames_processed,
             g_frames_displayed, g_frames_dropped>>
upVars == <<gpu_available, upscaler, superres, upEvent>>
tcVars == <<temporal, tcEvent, tcFrames, tcShots>>
fxVars == <<sharpening, bilateral, sbCall, fxEvent>>
stageVars == <<upVars, tcVars, fxVars>>
memVars == <<heap, producer, popped, snap>>
progVars == <<prog, workerVars, pipeVars, cliVars, stageVars, memVars>>

vars == <<ringVars, progVars>>

\* ------------------------------------------------- images (cv::Mat)
\* An image is known by its size and by the operations that produced it from
\* the input of the call: stages is the list of those operations, in order.
Mat(cols, rows, stages) == [cols |-> cols, rows |-> rows, stages |-> stages]
EmptyMat == Mat(0, 0, <<>>)
IsEmpty(m) == m.cols = 0 \/ m.rows = 0

\* one operation applied to an image; interpolation is "none" for a filter
Stage(op, interpolation) == [op |-> op, interpolation |-> interpolation]

\* cv::resize(src, dst, cv::Size(w, h), 0, 0, interpolation)
Resize(src, w, h, interpolation) ==
    Mat(w, h, Append(src.stages, Stage("resize", interpolation)))

\* a filter or colour pass that keeps the size of the image
Filter(src, op) == Mat(src.cols, src.rows, Append(src.stages, Stage(op, "none")))

\* cvRound(n / d) for n >= 0, d > 0
Round(n, d) == (2 * n + d) \div (2 * d)

\* the result of a call that returns a bool and writes an output image
Ret(ret, out) == [ret |-> ret, out |-> out]

\* -------------------------------------- UpscalerImpl (upscaler.cpp 22-543)
Algorithms == {"NEAREST", "BILINEAR", "BICUBIC", "LANCZOS", "SUPER_RES", "REAL_ESRGAN"}

\* CPUImpl::CPUImpl / GPUImpl::GPUImpl: the implementation keeps its own copy
\* of the algorithm and of the target size
Impl(backend, algorithm, target_width, target_height) ==
    [backend |-> backend, m_algorithm |-> algorithm,
     m_target_width |-> target_width, m_target_height |-> target_height]

\* CPUImpl::upscale, lines 47-66: the interpolation constant of an algorithm
CPUInterpolation(algorithm) ==
    CASE algorithm = "NEAREST" -> "INTER_NEAREST"
      [] algorithm = "BILINEAR" -> "INTER_LINEAR"
      [] algorithm = "BICUBIC" -> "INTER_CUBIC"
      [] OTHER -> "INTER_LANCZOS4"

\* CPUImpl::upscaleSuperRes, lines 149-185
CPUUpscaleSuperRes(impl, input) ==
    LET y == Filter(Filter(input, "cvtColor"), "bilateralFilter")
        up == Resize(y, impl.m_target_width, impl.m_target_height, "INTER_LANCZOS4")
        chroma == Filter(up, "resize_chroma_INTER_LINEAR")
    IN Ret(TRUE, Filter(Filter(Filter(chroma, "enhanceDetailsY"), "merge"),
                        "enhanceColors"))

\* CPUImpl::upscale, lines 38-91
CPUUpscale(impl, input) ==
    IF IsEmpty(input) THEN Ret(FALSE, EmptyMat)
    ELSE IF impl.m_algorithm = "SUPER_RES" THEN CPUUpscaleSuperRes(impl, input)
    ELSE IF impl.m_algorithm = "BICUBIC"
    THEN Ret(TRUE, Filter(Resize(Filter(input, "GaussianBlur"),
                                 impl.m_target_width, impl.m_target_height,
                                 "INTER_CUBIC"),
                          "enhanceBicubicResult"))
    ELSE LET resized == Resize(input, impl.m_target_width, impl.m_target_height,
                               CPUInterpolation(impl.m_algorithm))
         IN Ret(TRUE, IF impl.m_algorithm # "NEAREST"
                      THEN Filter(resized, "enhanceDetails") ELSE resized)

\* GPUImpl::upscale, lines 288-302: the interpolation constant of an algorithm
GPUInterpolation(algorithm) ==
    CASE algorithm = "NEAREST" -> "INTER_NEAREST"
      [] algorithm = "BILINEAR" -> "INTER_LINEAR"
      [] algorithm = "LANCZOS" -> "INTER_CUBIC"
      [] OTHER -> "INTER_LINEAR"

\* what the CUDA calls of one GPUImpl::upscaleSuperRes do: they succeed, or
\* they throw cv::Exception (the CUDA resize of the catch block and the CPU
\* resize that replaces it when it throws too produce the same stages)
CudaOutcomes == {"ok", "throws"}

\* GPUImpl::upscaleSuperRes, lines 379-455
GPUUpscaleSuperRes(impl, input, cuda) ==
    IF cuda = "ok"
    THEN LET y == Filter(Filter(input, "cvtColor"), "bilateralFilter")
             up == Resize(y, impl.m_target_width, impl.m_target_height, "INTER_CUBIC")
             chroma == Filter(up, "resize_chroma_INTER_LINEAR")
         IN Ret(TRUE, Filter(Filter(Filter(Filter(chroma, "enhanceDetailsY"), "merge"),
                                    "reduceDarkAreaNoise"), "enhanceColors"))
    ELSE Ret(TRUE, Filter(Resize(input, impl.m_target_width, impl.m_target_height,
                                 "INTER_CUBIC"),
                          "enhanceDetails"))

\* GPUImpl::upscale, lines 250-319
GPUUpscale(impl, input, cuda) ==
    IF IsEmpty(input) THEN Ret(FALSE, EmptyMat)
    ELSE IF impl.m_algorithm = "SUPER_RES" THEN GPUUpscaleSuperRes(impl, input, cuda)
    ELSE IF impl.m_algorithm = "BICUBIC"
    THEN Ret(TRUE, Filter(Resize(Filter(input, "GaussianBlur"),
                                 impl.m_target_width, impl.m_target_height,
                                 "INTER_CUBIC"),
                          "enhanceBicubicResult"))
    ELSE LET resized == Resize(input, impl.m_target_width, impl.m_target_height,
                               GPUInterpolation(impl.m_algorithm))
         IN Ret(TRUE, IF impl.m_algorithm # "NEAREST"
                      THEN Filter(resized, "enhanceDetails") ELSE resized)

\* UpscalerImpl::upscale: the virtual call
ImplUpscale(impl, input, cuda) ==
    IF impl.backend = "gpu" THEN GPUUpscale(impl, input, cuda)
    ELSE CPUUpscale(impl, input)

\* ------------------------------------------ DnnSuperRes (dnn_super_res.cpp)
ModelTypes == {"FSRCNN", "EDSR", "REAL_ESRGAN"}

\* DnnSuperRes::DnnSuperRes, lines 3-15
DnnSuperRes(scale, type) ==
    [m_scale |-> scale, m_initialized |-> FALSE, m_use_gpu |-> TRUE,
     m_target_width |-> 0, m_target_height |-> 0, m_model_type |-> type]

\* DnnSuperRes::setTargetSize (dnn_super_res.h 36-39)
DnnSetTargetSize(d, width, height) ==
    [d EXCEPT !.m_target_width = width, !.m_target_height = height]

\* DnnSuperRes::setUseGPU (dnn_super_res.h 42)
DnnSetUseGPU(d, use_gpu) == [d EXCEPT !.m_use_gpu = use_gpu]

\* DnnSuperRes::initialize, lines 17-64: loaded tells whether the model file
\* could be read
DnnInitialize(d, loaded) == [d EXCEPT !.m_initialized = loaded]

\* what the inference call of one upscale does: it returns an image of
\* m_scale times the input size; the ONNX network returns a tensor of another
\* size, or a tensor that is not 4-dimensional; or the call throws
\* cv::Exception (throws_twice: the resize of the catch block of
\* upscaleRealESRGAN throws as well).  m_sr.upsample either returns the scaled
\* image or throws.
Inferences == {"ok", "other_size", "bad_shape", "throws", "throws_twice"}

\* the size of the tensor the ONNX network returns
InferredCols(d, input, inference) ==
    IF inference = "other_size" THEN input.cols * 2 ELSE input.cols * d.m_scale
InferredRows(d, input, inference) ==
    IF inference = "other_size" THEN input.rows * 2 ELSE input.rows * d.m_scale

\* lines 94-98 and 183-187: resize to the target size if one is set and the
\* image does not have it
DnnToTarget(d, img) ==
    IF /\ d.m_target_width > 0 /\ d.m_target_height > 0
       /\ (img.cols # d.m_target_width \/ img.rows # d.m_target_height)
    THEN Resize(img, d.m_target_width, d.m_target_height, "INTER_LANCZOS4")
    ELSE img

\* DnnSuperRes::upscaleRealESRGAN, lines 117-214
upscaleRealESRGAN(d, input, inference) ==
    IF inference \in {"throws", "throws_twice"}
    THEN IF inference = "throws"
         THEN Ret(TRUE, Filter(Resize(input, input.cols * 4, input.rows * 4,
                                      "INTER_LANCZOS4"), "putText"))
         ELSE Ret(TRUE, Mat(input.cols * 4, input.rows * 4,
                            <<Stage("error_image", "none")>>))
    ELSE IF inference = "bad_shape" THEN Ret(FALSE, EmptyMat)
    ELSE Ret(TRUE, DnnToTarget(d,
                Mat(InferredCols(d, input, inference),
                    InferredRows(d, input, inference),
                    Append(input.stages, Stage("forward", "none")))))

\* DnnSuperRes::upscale, lines 66-115
DnnUpscale(d, input, inference) ==
    IF ~d.m_initialized THEN Ret(FALSE, EmptyMat)
    ELSE IF IsEmpty(input) THEN Ret(FALSE, EmptyMat)
    ELSE IF d.m_model_type = "REAL_ESRGAN" THEN upscaleRealESRGAN(d, input, inference)
    ELSE IF inference \in {"throws", "throws_twice"}
    THEN IF d.m_target_width > 0 /\ d.m_target_height > 0
         THEN Ret(TRUE, Resize(input, d.m_target_width, d.m_target_height,
                               "INTER_LANCZOS4"))
         ELSE Ret(FALSE, EmptyMat)
    ELSE Ret(TRUE, DnnToTarget(d,
                Mat(input.cols * d.m_scale, input.rows * d.m_scale,
                    Append(input.stages, Stage("upsample", "none")))))

\* ------------------------------------------------ Upscaler (upscaler.cpp)
\* the machine: OpenCV built without CUDA, built with CUDA on a machine
\* without a device, or with a device
Machines == {"no_cuda_build", "no_device", "available"}

\* Upscaler::isGPUAvailable, lines 666-672
isGPUAvailable == gpu_available = "available"
WITH_CUDA == gpu_available # "no_cuda_build"

\* a std::unique_ptr: <<>> is nullptr, <<x>> owns x
Null == <<>>
Own(x) == <<x>>

\* a constructor that keeps the GPU request whatever the machine
UpscalerKeepsGpuRequest(algorithm, use_gpu) ==
    [m_algorithm |-> algorithm,
     m_use_gpu |-> use_gpu,
     m_initialized |-> FALSE,
     m_target_width |-> 0,
     m_target_height |-> 0,
     m_impl |-> Null,
     m_dnn_sr |-> Null]

\* Upscaler::Upscaler, lines 547-560
Upscaler(algorithm, use_gpu) ==
    [m_algorithm |-> algorithm,
     m_use_gpu |-> (use_gpu /\ isGPUAvailable),
     m_initialized |-> FALSE,
     m_target_width |-> 0,
     m_target_height |-> 0,
     m_impl |-> Null,
     m_dnn_sr |-> Null]

\* the result of a member function that returns a bool and changes the object
Changed(ret, u) == [ret |-> ret, u |-> u]

\* initializeImpl, lines 684-719: the DnnSuperRes object of the two
\* super-resolution algorithms
NewDnn(u, loaded) ==
    DnnInitialize(
        DnnSetUseGPU(
            DnnSetTargetSize(
                DnnSuperRes(4, IF u.m_algorithm = "REAL_ESRGAN" THEN "EDSR" ELSE "FSRCNN"),
                u.m_target_width, u.m_target_height),
            u.m_use_gpu),
        loaded)

\* initializeImpl, lines 721-741: the CPU or GPU implementation; gpuThrows
\* tells whether the constructor of GPUImpl throws
WithImpl(u, gpuThrows) ==
    LET useGpu == WITH_CUDA /\ u.m_use_gpu /\ ~gpuThrows
    IN [u EXCEPT !.m_use_gpu = IF WITH_CUDA /\ u.m_use_gpu /\ gpuThrows
                               THEN FALSE ELSE u.m_use_gpu,
                 !.m_impl = Own(Impl(IF useGpu THEN "gpu" ELSE "cpu", u.m_algorithm,
                                     u.m_target_width, u.m_target_height)),
                 !.m_initialized = TRUE]

\* Upscaler::initializeImpl, lines 674-742: loaded tells whether the model
\* file of the super-resolution network could be read
initializeImpl(u, loaded, gpuThrows) ==
    LET reset == [u EXCEPT !.m_impl = Null]
    IN IF u.m_target_width <= 0 \/ u.m_target_height <= 0
       THEN Changed(FALSE, [reset EXCEPT !.m_initialized = FALSE])
       ELSE IF u.m_algorithm \in {"SUPER_RES", "REAL_ESRGAN"}
       THEN IF loaded
            THEN Changed(TRUE, [reset EXCEPT !.m_dnn_sr = Own(NewDnn(u, loaded)),
                                             !.m_initialized = TRUE])
            ELSE Changed(TRUE, WithImpl([reset EXCEPT !.m_dnn_sr = Null], gpuThrows))
       ELSE Changed(TRUE, WithImpl(reset, gpuThrows))

\* Upscaler::initialize, lines 564-574
initialize(u, target_width, target_height, loaded, gpuThrows) ==
    IF target_width <= 0 \/ target_height <= 0
    THEN Changed(FALSE, u)
    ELSE initializeImpl([u EXCEPT !.m_target_width = target_width,
                                  !.m_target_height = target_height],
                        loaded, gpuThrows)

\* Upscaler::upscale, lines 582-593: inputs larger than 1280x720 are scaled
\* down by min(1280 / cols, 720 / rows) first
WorkingInput(input) ==
    IF input.cols > 1280 \/ input.rows > 720
    THEN IF 1280 * input.rows <= 720 * input.cols
         THEN Resize(input, Round(input.cols * 1280, input.cols),
                     Round(input.rows * 1280, input.cols), "INTER_AREA")
         ELSE Resize(input, Round(input.cols * 720, input.rows),
                     Round(input.rows * 720, input.rows), "INTER_AREA")
    ELSE input

\* Upscaler::upscale, lines 576-615
upscale(u, input, inference, cuda) ==
    IF IsEmpty(input) THEN Ret(FALSE, EmptyMat)
    ELSE IF /\ u.m_algorithm = "SUPER_RES" /\ u.m_dnn_sr # Null
            /\ u.m_dnn_sr[1].m_initialized
    THEN DnnUpscale(u.m_dnn_sr[1], WorkingInput(input), inference)
    ELSE IF u.m_impl = Null
    THEN IF u.m_target_width > 0 /\ u.m_target_height > 0
         THEN Ret(TRUE, Resize(WorkingInput(input), u.m_target_width,
                               u.m_target_height, "INTER_LINEAR"))
         ELSE Ret(FALSE, EmptyMat)
    ELSE ImplUpscale(u.m_impl[1], WorkingInput(input), cuda)

\* Upscaler::setAlgorithm, lines 617-624
setAlgorithm(u, algorithm, loaded, gpuThrows) ==
    IF u.m_algorithm # algorithm
    THEN IF u.m_initialized
         THEN initializeImpl([u EXCEPT !.m_algorithm = algorithm], loaded, gpuThrows).u
         ELSE [u EXCEPT !.m_algorithm = algorithm]
    ELSE u

\* Upscaler::setUseGPU, lines 626-641
setUseGPU(u, use_gpu, loaded, gpuThrows) ==
    IF use_gpu /\ ~isGPUAvailable
    THEN Changed(FALSE, u)
    ELSE IF u.m_use_gpu # use_gpu
    THEN IF u.m_initialized
         THEN Changed(TRUE, initializeImpl([u EXCEPT !.m_use_gpu = use_gpu],
                                           loaded, gpuThrows).u)
         ELSE Changed(TRUE, [u EXCEPT !.m_use_gpu = use_gpu])
    ELSE Changed(TRUE, u)

\* Upscaler::isUsingGPU, lines 643-645
isUsingGPU(u) == u.m_use_gpu

\* Upscaler::adjustQualityForPerformance, lines 744-753: the times are in
\* milliseconds; processing_time > target_time * 1.5
adjustQualityForPerformance(u, processing_time, target_time, loaded, gpuThrows) ==
    IF u.m_algorithm = "SUPER_RES" /\ 2 * processing_time > 3 * target_time
    THEN Changed(TRUE, initializeImpl([u EXCEPT !.m_algorithm = "BICUBIC"],
                                      loaded, gpuThrows).u)
    ELSE Changed(FALSE, u)

\* the record of a call: its name, its arguments and what it returned
Call(op) ==
    [op |-> op, ret |-> TRUE, algorithm |-> "none", use_gpu |-> FALSE,
     width |-> 0, height |-> 0, processing_time |-> 0, target_time |-> 0,
     inference |-> "none", input |-> EmptyMat, out |-> EmptyMat]

\* ------------------------- TemporalConsistency (temporal_consistency.cpp)
\* A frame handed to process() is known by its number in the stream; shot
\* counts the scene changes process() had detected when it took the frame.
StreamFrame(id, shot) == [id |-> id, shot |-> shot]
NoStreamFrame == StreamFrame(0, 0)

\* the optical flow from the last buffered frame to the current frame
Flow(prev, curr) == [prev |-> prev, curr |-> curr]

\* an output frame: a copy of frame when blended is empty, else the weighted
\* blend of frame with the warped frames of blended
TcOut(frame, blended) == [frame |-> frame, blended |-> blended]

\* TemporalConsistency::Config (temporal_consistency.h 18-33)
TcConfig(buffer_size) ==
    [buffer_size |-> buffer_size, scene_change_threshold |-> 100]

\* TemporalConsistency::TemporalConsistency(config), lines 16-18
TemporalConsistency(config) ==
    [m_config |-> config, m_initialized |-> FALSE,
     m_frame_buffer |-> <<>>, m_gray_buffer |-> <<>>, m_flow_buffer |-> <<>>]

\* TemporalConsistency::reset, lines 45-50
TcReset(t) ==
    [t EXCEPT !.m_frame_buffer = <<>>, !.m_gray_buffer = <<>>,
              !.m_flow_buffer = <<>>]

\* TemporalConsistency::initialize, lines 23-43
TcInitialize(t) == [TcReset(t) EXCEPT !.m_initialized = TRUE]

\* TemporalConsistency::setConfig, lines 52-55
TcSetConfig(t, config) == [t EXCEPT !.m_config = config]

\* the score detectSceneChange computes for two grayscale frames, histogram
\* difference * 100 + mean absolute difference * 0.5: <<d>>, or <<>> when an
\* OpenCV call of the computation throws
Measures == {<<>>, <<0>>, <<100>>, <<101>>}

\* TemporalConsistency::detectSceneChange, lines 282-319
detectSceneChange(t, measured) ==
    measured # <<>> /\ measured[1] > t.m_config.scene_change_threshold

\* the result of a trimming loop: the deque it leaves, or defined = FALSE
\* when the loop calls pop_front() on an empty deque
Trimmed(defined, q) == [defined |-> defined, q |-> q]

\* process, lines 161-164: while (m_frame_buffer.size() > buffer_size)
\* pop_front(), for buffer_size >= 0
RECURSIVE TrimFrames(_, _)
TrimFrames(q, buffer_size) ==
    IF Len(q) > buffer_size THEN TrimFrames(Tail(q), buffer_size) ELSE q

\* process, lines 166-168: while (m_flow_buffer.size() >= buffer_size)
\* pop_front(), for buffer_size >= 0
RECURSIVE TrimFlows(_, _)
TrimFlows(q, buffer_size) ==
    IF Len(q) >= buffer_size
    THEN IF q = <<>> THEN Trimmed(FALSE, q) ELSE TrimFlows(Tail(q), buffer_size)
    ELSE Trimmed(TRUE, q)

\* process, lines 121-138: the buffered frames paired with a flow field,
\* newest first, the i-th of them (from 0) kept when warpFrame succeeds
Warped(t, flows, warpOk) ==
    LET n == IF Len(flows) < Len(t.m_frame_buffer)
             THEN Len(flows) ELSE Len(t.m_frame_buffer)
        pairs == [i \in 1 .. n |->
                    <<i - 1, t.m_frame_buffer[Len(t.m_frame_buffer) - (i - 1)]>>]
        kept == SelectSeq(pairs, LAMBDA p : p[1] \in warpOk)
    IN [i \in 1 .. Len(kept) |-> kept[i][2]]

\* the result of process(): return value, output frame, object afterwards
Processed(ret, out, t) == [ret |-> ret, out |-> out, t |-> t, defined |-> TRUE]

\* a restart that keeps the frames buffered before a scene change
TcRestartKeepsHistory(t, frame, scene_change) ==
    Processed(TRUE, TcOut(frame, <<>>),
              [t EXCEPT !.m_frame_buffer = Append(@, frame),
                        !.m_gray_buffer = Append(@, frame)])

\* process, lines 94-112: scene change or failed optical flow
TcRestart(t, frame, scene_change) ==
    LET kept == IF scene_change THEN TcReset(t) ELSE t
    IN Processed(TRUE, TcOut(frame, <<>>),
                 [kept EXCEPT !.m_frame_buffer = Append(@, frame),
                              !.m_gray_buffer = Append(@, frame)])

\* process, lines 114-168: blend the current frame with the warped history,
\* then update and trim the buffers
TcBlend(t, frame, warpOk) ==
    LET flows == Append(t.m_flow_buffer, Flow(t.m_gray_buffer[Len(t.m_gray_buffer)], frame))
        blended == IF flows # <<>> /\ Len(t.m_frame_buffer) >= 1
                   THEN Warped(t, flows, warpOk) ELSE <<>>
        trimmed == TrimFlows(flows, t.m_config.buffer_size)
    IN [Processed(TRUE, TcOut(frame, blended),
                  [t EXCEPT
                     !.m_frame_buffer = TrimFrames(Append(@, frame), t.m_config.buffer_size),
                     !.m_gray_buffer = TrimFrames(Append(@, frame), t.m_config.buffer_size),
                     !.m_flow_buffer = trimmed.q])
        EXCEPT !.defined = trimmed.defined]

\* TemporalConsistency::process, lines 61-172: flowOk is the result of
\* calculateOpticalFlow, warpOk the history positions whose warpFrame succeeds
process(t, frame, measured, flowOk, warpOk) ==
    IF ~t.m_initialized THEN Processed(FALSE, TcOut(frame, <<>>), t)
    ELSE IF frame = NoStreamFrame THEN Processed(FALSE, TcOut(NoStreamFrame, <<>>), t)
    ELSE IF t.m_frame_buffer = <<>>
    THEN Processed(TRUE, TcOut(frame, <<>>),
                   [t EXCEPT !.m_frame_buffer = <<frame>>,
                             !.m_gray_buffer = <<frame>>])
    ELSE LET scene_change == detectSceneChange(t, measured)
         IN IF ~scene_change /\ flowOk
            THEN TcBlend(t, frame, warpOk)
            ELSE TcRestart(t, frame, scene_change)

\* the record of a call on a TemporalConsistency object
TcCall(op) ==
    [op |-> op, ret |-> TRUE, before |-> TemporalConsistency(TcConfig(3)),
     frame |-> NoStreamFrame, measured |-> <<>>,
     out |-> TcOut(NoStreamFrame, <<>>), outcome |-> "returned"]

\* TemporalConsistency temporal_consistency(Config{3, ...}), not yet initialized
TemporalIdle ==
    /\ temporal = TemporalConsistency(TcConfig(3))
    /\ tcEvent = TcCall("construct")
    /\ tcFrames = 0
    /\ tcShots = 0

\* ------------------------- AdaptiveSharpening (adaptive_sharpening.cpp)
\* the record of a call on a filter object: prior is the caller's output image
\* before the call, failed the steps that fail if the call reaches them, mode
\* and levels the branch of SelectiveBilateral::process and the size of its
\* pyramid, began and ended the configuration the call read first and last
FxCall(op) ==
    [op |-> op, ret |-> TRUE, input |-> EmptyMat, prior |-> EmptyMat,
     out |-> EmptyMat, failed |-> {}, mode |-> "none", levels |-> 0,
     began |-> <<>>, ended |-> <<>>]

\* AdaptiveSharpening::AdaptiveSharpening(config), lines 16-18
AdaptiveSharpening(adaptive_sigma) ==
    [m_config |-> [adaptive_sigma |-> adaptive_sigma], m_initialized |-> FALSE]

\* the steps of AdaptiveSharpening::process that can fail
AsSteps == {"edge_mask", "texture_map", "sigma_map", "unsharp"}

\* applyVariableSigmaUnsharpMask (436-592) and applyUnsharpMask (232-355):
\* both copy the input to the output when they catch a cv::Exception
AsUnsharp(input, failed, op) ==
    IF "unsharp" \in failed THEN Ret(FALSE, input) ELSE Ret(TRUE, Filter(input, op))

\* AdaptiveSharpening::process, lines 51-105; every helper catches the
\* cv::Exception of its own OpenCV calls, so the handler of lines 100-104 is
\* not reached
AsProcess(s, input, prior, failed) ==
    IF ~s.m_initialized \/ IsEmpty(input) THEN Ret(FALSE, prior)
    ELSE IF "edge_mask" \in failed THEN Ret(FALSE, prior)
    ELSE IF s.m_config.adaptive_sigma
         THEN IF failed \cap {"texture_map", "sigma_map"} # {}
              THEN Ret(FALSE, prior)
              ELSE AsUnsharp(input, failed, "variableSigmaUnsharpMask")
         ELSE AsUnsharp(input, failed, "unsharpMask")

\* ------------------------- SelectiveBilateral (selective_bilateral.cpp)
\* SelectiveBilateral::Config (selective_bilateral.h 20-40)
SbConfig(use_multiscale, selective, num_scales, use_gpu) ==
    [use_multiscale |-> use_multiscale, selective |-> selective,
     num_scales |-> num_scales, use_gpu |-> use_gpu]

\* SelectiveBilateral::SelectiveBilateral(config), lines 16-18
SelectiveBilateral(config) == [m_config |-> config, m_initialized |-> FALSE]

\* std::max(1, std::min(num_scales, 5)), line 42
ClampScales(num_scales) ==
    IF num_scales > 5 THEN 5 ELSE IF num_scales < 1 THEN 1 ELSE num_scales

\* SelectiveBilateral::initialize, lines 23-47
SbInitialize(b) ==
    [b EXCEPT !.m_initialized = TRUE,
              !.m_config.use_gpu = @ /\ isGPUAvailable,
              !.m_config.num_scales =
                  IF b.m_config.use_multiscale THEN ClampScales(@) ELSE @]

\* the steps of SelectiveBilateral::process that can throw a cv::Exception
SbSteps == {"detail_mask", "blend", "pyramid", "bilateral"}

\* SelectiveBilateral::applyBilateralFilter, lines 82-119
applyBilateralFilter(input, failed) ==
    IF "bilateral" \in failed THEN Ret(FALSE, input)
    ELSE Ret(TRUE, Filter(input, "bilateralFilter"))

\* SelectiveBilateral::applyJointBilateral, lines 373-439
applyJointBilateral(input, failed) ==
    IF "bilateral" \in failed THEN Ret(FALSE, input)
    ELSE IF "blend" \in failed THEN Ret(FALSE, Filter(input, "bilateralFilter"))
    ELSE Ret(TRUE, Filter(Filter(input, "bilateralFilter"), "jointBlend"))

\* a selective branch that gives up when the detail mask cannot be built
applySelectiveBilateralAborts(input, failed) ==
    IF "detail_mask" \in failed THEN Ret(FALSE, input)
    ELSE applyJointBilateral(input, failed)

\* SelectiveBilateral::applySelectiveBilateral, lines 121-136
applySelectiveBilateral(input, failed) ==
    IF "detail_mask" \in failed THEN applyBilateralFilter(input, failed)
    ELSE applyJointBilateral(input, failed)

\* applyMultiscaleBilateral, lines 145-152: scales.size() after the loop
\* 'for (i = 1; i < m_config.num_scales; i++)'
Levels(config) == IF config.num_scales < 1 THEN 1 ELSE config.num_scales

\* SelectiveBilateral::applyMultiscaleBilateral, lines 138-237. With use_gpu
\* the filtered scales stay empty (lines 163-175 write output instead), and
\* the empty finest level is copied to the output. createDetailMask hands
\* back a neutral mask when it fails (line 307) and the blend goes on.
applyMultiscaleBilateral(config, input, failed) ==
    IF "pyramid" \in failed THEN applyBilateralFilter(input, failed)
    ELSE IF config.use_gpu THEN Ret(TRUE, EmptyMat)
    ELSE IF Levels(config) = 1 THEN Ret(TRUE, Filter(input, "bilateralFilter"))
    ELSE Ret(TRUE, Filter(Filter(input, "bilateralFilter"),
                          IF "detail_mask" \in failed
                          THEN "multiscaleBlendNeutralMask" ELSE "multiscaleBlend"))

\* SelectiveBilateral::process, lines 69-75: the branch the call takes
SbMode(config) ==
    IF config.use_multiscale THEN "multiscale"
    ELSE IF config.selective THEN "selective" ELSE "plain"

\* SelectiveBilateral::process, lines 69-75: the branch taken, which reads
\* m_config again
SbApply(mode, config, input, failed) ==
    IF mode = "multiscale" THEN applyMultiscaleBilateral(config, input, failed)
    ELSE IF mode = "selective" THEN applySelectiveBilateral(input, failed)
    ELSE applyBilateralFilter(input, failed)

\* no SelectiveBilateral::process call is in progress
NoSbCall == FxCall("none")

\* the filter objects of a program that does not call them
FiltersIdle ==
    /\ sharpening = AdaptiveSharpening(TRUE)
    /\ bilateral = SelectiveBilateral(SbConfig(TRUE, TRUE, 3, TRUE))
    /\ sbCall = NoSbCall
    /\ fxEvent = FxCall("construct")

\* the stage objects of a program that does not call them
StagesIdle ==
    /\ gpu_available = "no_cuda_build"
    /\ upscaler = Upscaler("BILINEAR", TRUE)
    /\ superres = DnnSuperRes(4, "FSRCNN")
    /\ upEvent = Call("none")
    /\ TemporalIdle
    /\ FiltersIdle

\* ------------------------------------------------------- FrameBuffer
\* FrameBuffer::FrameBuffer(capacity)
FrameBuffer(capacity) ==
    [m_capacity |-> capacity,
     m_frames   |-> [i \in 0 .. capacity - 1 |-> NoFrame],
     m_head     |-> 0,
     m_tail     |-> 0,
     m_size     |-> 0]

size(r) == r.m_size
empty(r) == size(r) = 0
\* full() with the comparison off by one
fullOffByOne(r) == size(r) > r.m_capacity

full(r) == size(r) >= r.m_capacity
capacity(r) == r.m_capacity
nextIndex(r, current) == (current + 1) % r.m_capacity

\* pushFrame, lines 30-41: copy the frame into the head slot, advance head
Enqueue(r, frame) ==
    [r EXCEPT !.m_frames[r.m_head] = frame,
              !.m_head = nextIndex(r, r.m_head),
              !.m_size = r.m_size + 1]

\* popFrame, lines 61-69: the frame handed out is the tail slot
Front(r) == r.m_frames[r.m_tail]

\* popFrame that forgets to advance the tail
DequeueNoAdvance(r) ==
    [r EXCEPT !.m_frames[r.m_tail] = NoFrame,
              !.m_size = r.m_size - 1]

Dequeue(r) ==
    [r EXCEPT !.m_frames[r.m_tail] = NoFrame,
              !.m_tail = nextIndex(r, r.m_tail),
              !.m_size = r.m_size - 1]

\* clear that forgets to reset the head index
ReleasedKeepHead(r) ==
    [r EXCEPT !.m_frames = [i \in DOMAIN r.m_frames |-> NoFrame],
              !.m_tail = 0,
              !.m_size = 0]

\* clear, lines 96-103
Released(r) ==
    [r EXCEPT !.m_frames = [i \in DOMAIN r.m_frames |-> NoFrame],
              !.m_head = 0,
              !.m_tail = 0,
              !.m_size = 0]

\* ------------------------------------------------ condition variables
NoCall == [op |-> "none", st |-> "none", ring |-> 0, frame |-> NoFrame]
Suspended(op, rid, frame) ==
    [op |-> op, st |-> "waiting", ring |-> rid, frame |-> frame]

\* threads in the wait set of m_not_full (op = "push") or m_not_empty ("pop")
Waiters(c, op, rid) ==
    {t \in Threads : c[t].op = op /\ c[t].st = "waiting" /\ c[t].ring = rid}

\* a push or pop that forgets to notify
NotifyNobody(c, op, rid) == {c}

\* std::condition_variable::notify_one: the possible outcomes
NotifyOne(c, op, rid) ==
    IF Waiters(c, op, rid) = {}
    THEN {c}
    ELSE {[c EXCEPT ![t].st = "notified"] : t \in Waiters(c, op, rid)}

\* std::condition_variable::notify_all
NotifyAll(c, op, rid) ==
    [t \in Threads |->
        IF t \in Waiters(c, op, rid) THEN [c[t] EXCEPT !.st = "notified"]
        ELSE c[t]]

Event(t, op, rid, blocking, frame, status) ==
    [thread |-> t, op |-> op, ring |-> rid, blocking |-> blocking,
     frame |-> frame, status |-> status,
     resumed |-> (t \in Threads /\ call[t].op # "none")]

\* the part of pushFrame after the wait: lines 30-46
StorePush(t, rid, frame, blocking) ==
    /\ rings' = [rings EXCEPT ![rid] = Enqueue(rings[rid], frame)]
    /\ call' \in NotifyOne([call EXCEPT ![t] = NoCall], "pop", rid)
    /\ accepted' = [accepted EXCEPT ![rid] = Append(@, frame)]
    /\ event' = Event(t, "push", rid, blocking, frame, "ok")
    /\ UNCHANGED <<returned, rejected>>

\* a full ring that overwrites its oldest frame (as the header comment says)
RejectPushOverwrite(t, rid, frame, blocking) ==
    /\ event' = Event(t, "push", rid, blocking, frame, "fail")
    /\ rejected' = IF frame = NoFrame THEN rejected ELSE rejected \cup {frame}
    /\ rings' = IF frame = NoFrame THEN rings
                ELSE [rings EXCEPT ![rid].m_frames[rings[rid].m_tail] = frame]
    /\ UNCHANGED <<call, accepted, returned>>

\* a pushFrame that returns false
RejectPush(t, rid, frame, blocking) ==
    /\ event' = Event(t, "push", rid, blocking, frame, "fail")
    /\ rejected' = IF frame = NoFrame THEN rejected ELSE rejected \cup {frame}
    /\ UNCHANGED <<rings, call, accepted, returned>>

\* FrameBuffer::pushFrame up to its first suspension or its return
pushFrame(t, rid, frame, blocking) ==
    /\ call[t].op = "none"
    /\ IF frame = NoFrame
       THEN RejectPush(t, rid, frame, blocking)
       ELSE IF full(rings[rid])
            THEN IF ~blocking
                 THEN RejectPush(t, rid, frame, blocking)
                 ELSE /\ call' = [call EXCEPT ![t] = Suspended("push", rid, frame)]
                      /\ event' = Event(t, "push", rid, blocking, frame, "wait")
                      /\ UNCHANGED <<rings, accepted, returned, rejected>>
            ELSE StorePush(t, rid, frame, blocking)

\* a woken pusher re-evaluates the predicate of m_not_full.wait
pushResume(t) ==
    /\ call[t].op = "push" /\ call[t].st = "notified"
    /\ IF full(rings[call[t].ring])
       THEN /\ call' = [call EXCEPT ![t].st = "waiting"]
            /\ event' = Event(t, "push", call[t].ring, TRUE, call[t].frame, "wait")
            /\ UNCHANGED <<rings, accepted, returned, rejected>>
       ELSE StorePush(t, call[t].ring, call[t].frame, TRUE)

\* the part of popFrame after the wait: lines 61-74
TakePop(t, rid, blocking) ==
    /\ rings' = [rings EXCEPT ![rid] = Dequeue(rings[rid])]
    /\ call' \in NotifyOne([call EXCEPT ![t] = NoCall], "push", rid)
    /\ returned' = [returned EXCEPT ![rid] = Append(@, Front(rings[rid]))]
    /\ event' = Event(t, "pop", rid, blocking, Front(rings[rid]), "ok")
    /\ UNCHANGED <<accepted, rejected>>

\* FrameBuffer::popFrame up to its first suspension or its return
popFrame(t, rid, blocking) ==
    /\ call[t].op = "none"
    /\ IF empty(rings[rid])
       THEN IF ~blocking
            THEN /\ event' = Event(t, "pop", rid, blocking, NoFrame, "fail")
                 /\ UNCHANGED <<rings, call, accepted, returned, rejected>>
            ELSE /\ call' = [call EXCEPT ![t] = Suspended("pop", rid, NoFrame)]
                 /\ event' = Event(t, "pop", rid, blocking, NoFrame, "wait")
                 /\ UNCHANGED <<rings, accepted, returned, rejected>>
       ELSE TakePop(t, rid, blocking)

\* a woken popper re-evaluates the predicate of m_not_empty.wait
popResume(t) ==
    /\ call[t].op = "pop" /\ call[t].st = "notified"
    /\ IF empty(rings[call[t].ring])
       THEN /\ call' = [call EXCEPT ![t].st = "waiting"]
            /\ event' = Event(t, "pop", call[t].ring, TRUE, NoFrame, "wait")
            /\ UNCHANGED <<rings, accepted, returned, rejected>>
       ELSE TakePop(t, call[t].ring, TRUE)

\* FrameBuffer::clear, lines 94-106
ClearRing(rid) ==
    /\ rings' = [rings EXCEPT ![rid] = Released(rings[rid])]
    /\ call' = NotifyAll(call, "push", rid)
    /\ accepted' = [accepted EXCEPT ![rid] = <<>>]
    /\ returned' = [returned EXCEPT ![rid] = <<>>]
    /\ UNCHANGED rejected

\* FrameBuffer::clear called by thread t
clear(t, rid) ==
    /\ ClearRing(rid)
    /\ event' = Event(t, "clear", rid, FALSE, NoFrame, "ok")

\* a condition-variable wait may return spuriously; the predicate is re-checked
spuriousWake(t) ==
    /\ call[t].st = "waiting"
    /\ call' = [call EXCEPT ![t].st = "notified"]
    /\ event' = Event(t, "wake", call[t].ring, TRUE, NoFrame, "wait")
    /\ UNCHANGED <<rings, accepted, returned, rejected>>

\* ---------------------------------------------- ring harness (SpecRing)
InitRingVars(capRaw, capProcessed) ==
    /\ rings = [rid \in Rings |->
                  IF rid = RAW THEN FrameBuffer(capRaw) ELSE FrameBuffer(capProcessed)]
    /\ call = [t \in Threads |-> NoCall]
    /\ event = Event(Main, "init", 0, FALSE, NoFrame, "ok")
    /\ nextFrame = 1
    /\ accepted = [rid \in Rings |-> <<>>]
    /\ returned = [rid \in Rings |-> <<>>]
    /\ rejected = {}
    /\ heap = [id \in StorageIds |-> NoFrame]
    /\ producer = NoFrame
    /\ popped = {}
    /\ snap = [id \in StorageIds |-> NoFrame]

\* Pipeline::Pipeline(config), pipeline.cpp 403-406: the members the Pipeline
\* object holds next to m_impl (pipeline.h 146-149). m_members is the state
\* of m_latency, m_fps, m_timer and m_config, which the destructor destroys
\* together before m_impl.
Pipeline(config) ==
    [m_config |-> config, m_members |-> "live", m_impl |-> "live"]

\* Pipeline::Impl::Impl and the globals of main.cpp before any thread runs
InitProgVars(p, tw, th, bs) ==
    /\ prog = p
    /\ wpc = [w \in Workers |-> "none"]
    /\ held = [w \in Workers |-> NoFrame]
    /\ m_camera = "null" /\ m_upscaler = "null"
    /\ m_display = "null" /\ m_buffer = "null"
    /\ m_config = [target_width |-> tw, target_height |-> th, buffer_size |-> bs]
    /\ pipeline = Pipeline([target_width |-> tw, target_height |-> th,
                            buffer_size |-> bs])
    /\ m_running = FALSE
    /\ thr = [w \in Workers |-> "null"]
    /\ ctl = "idle"
    /\ initRet = "none"
    /\ stopWasRunning = FALSE
    /\ stopReturned = FALSE
    /\ g_running = TRUE
    /\ source_open = TRUE
    /\ g_frames_captured = 0 /\ g_frames_processed = 0
    /\ g_frames_displayed = 0 /\ g_frames_dropped = 0

InitRing ==
    /\ \E c \in 1 .. MaxCapacity : InitRingVars(c, 1)
    /\ InitProgVars("ring", 1, 1, 1)
    /\ StagesIdle

\* a thread pushes the next source frame
RingPush(t) ==
    /\ nextFrame <= MaxFrames
    /\ \E blocking \in BOOLEAN : pushFrame(t, RAW, nextFrame, blocking)
    /\ nextFrame' = nextFrame + 1
    /\ UNCHANGED progVars

\* a thread pushes an empty frame
RingPushEmpty(t) ==
    /\ \E blocking \in BOOLEAN : pushFrame(t, RAW, NoFrame, blocking)
    /\ UNCHANGED <<nextFrame, progVars>>

RingPop(t) ==
    /\ \E blocking \in BOOLEAN : popFrame(t, RAW, blocking)
    /\ UNCHANGED <<nextFrame, progVars>>

RingPushResume(t) == pushResume(t) /\ UNCHANGED <<nextFrame, progVars>>
RingPopResume(t) == popResume(t) /\ UNCHANGED <<nextFrame, progVars>>
RingClear(t) == call[t].op = "none" /\ clear(t, RAW) /\ UNCHANGED <<nextFrame, progVars>>
RingSpuriousWake(t) == spuriousWake(t) /\ UNCHANGED <<nextFrame, progVars>>

NextRing ==
    \E t \in Threads :
        \/ RingPush(t)
        \/ RingPushEmpty(t)
        \/ RingPop(t)
        \/ RingPushResume(t)
        \/ RingPopResume(t)
        \/ RingClear(t)
        \/ RingSpuriousWake(t)

SpecRing == InitRing /\ [][NextRing]_vars

FairSpecRing ==
    /\ SpecRing
    /\ \A t \in Threads : WF_vars(RingPushResume(t)) /\ WF_vars(RingPopResume(t))

\* -------------------------------------------- Pipeline (pipeline.cpp)
\* the other variables a step of the Pipeline program leaves alone
PipeFrame ==
    prog = "pipeline" /\ UNCHANGED <<prog, pipeline, cliVars, stageVars, memVars>>

\* a ring: m_buffer is the only ring of Pipeline::Impl
BUF == RAW

\* the worker threads in the order start() creates and stop() joins them
JoinStage(w) ==
    IF w = Capture THEN "join_capture"
    ELSE IF w = Processing THEN "join_processing" ELSE "join_display"

AfterJoin(w) ==
    IF w = Capture THEN "join_processing"
    ELSE IF w = Processing THEN "join_display" ELSE "clear"

RingQuiet == UNCHANGED <<rings, call, accepted, returned, rejected, nextFrame>>

\* Pipeline::Impl::initialize: the outcome depends on the cameras detected,
\* on Camera::initialize, on the configured target size and on
\* Display::initialize.  It is called while no worker thread exists.
Initialize(camerasFound, cameraOk, displayOk) ==
    /\ ctl = "idle"
    /\ ~m_running
    /\ LET upscalerOk == m_config.target_width > 0 /\ m_config.target_height > 0
           ok == camerasFound /\ cameraOk /\ upscalerOk /\ displayOk
       IN /\ m_camera' = IF ~camerasFound THEN m_camera
                         ELSE IF cameraOk THEN "opened" ELSE "closed"
          /\ m_upscaler' = IF ~(camerasFound /\ cameraOk) THEN m_upscaler
                           ELSE IF upscalerOk THEN "ready" ELSE "failed"
          /\ m_display' = IF ~(camerasFound /\ cameraOk /\ upscalerOk) THEN m_display
                          ELSE IF displayOk THEN "ready" ELSE "failed"
          /\ m_buffer' = IF ok THEN "present" ELSE m_buffer
          /\ rings' = IF ok THEN [rings EXCEPT ![BUF] = FrameBuffer(m_config.buffer_size)]
                      ELSE rings
          /\ accepted' = IF ok THEN [accepted EXCEPT ![BUF] = <<>>] ELSE accepted
          /\ returned' = IF ok THEN [returned EXCEPT ![BUF] = <<>>] ELSE returned
          /\ initRet' = IF ok THEN "ok" ELSE "fail"
          /\ event' = Event(Main, "initialize", 0, FALSE, NoFrame,
                            IF ok THEN "ok" ELSE "fail")
    /\ UNCHANGED <<call, rejected, nextFrame, workerVars, m_config, m_running,
                   thr, ctl, stopWasRunning, stopReturned>>
    /\ PipeFrame

\* the threads start() has created when the thread constructor throws at the
\* (created + 1)-th thread; created = 3 is the run without exception
Spawned(created) == {w \in Workers : w <= created}

\* start() that skips the 'already running' test
StartNoRunningCheck(created) ==
    /\ ctl = "idle"
    /\ m_camera = "opened" /\ m_upscaler # "null"
    /\ m_display # "null" /\ m_buffer # "null"
    /\ m_running' = TRUE
    /\ thr' = [w \in Workers |-> IF w \in Spawned(created) THEN "running" ELSE thr[w]]
    /\ wpc' = [w \in Workers |-> IF w \in Spawned(created) THEN "loop" ELSE wpc[w]]
    /\ ctl' = IF created = 3 THEN "idle" ELSE "start_failed"
    /\ stopReturned' = FALSE
    /\ event' = Event(Main, "start", 0, FALSE, NoFrame,
                      IF created = 3 THEN "ok" ELSE "fail")
    /\ UNCHANGED <<held, m_camera, m_upscaler, m_display, m_buffer, m_config,
                   initRet, stopWasRunning>>
    /\ RingQuiet
    /\ PipeFrame

\* Pipeline::Impl::start
Start(created) ==
    /\ ctl = "idle"
    /\ IF m_camera = "null" \/ m_upscaler = "null"
          \/ m_display = "null" \/ m_buffer = "null"
       THEN /\ event' = Event(Main, "start", 0, FALSE, NoFrame, "fail")
            /\ UNCHANGED <<workerVars, pipeVars>>
       ELSE IF m_running
       THEN /\ event' = Event(Main, "start", 0, FALSE, NoFrame, "ok")
            /\ UNCHANGED <<workerVars, pipeVars>>
       ELSE IF m_camera # "opened"
       THEN /\ event' = Event(Main, "start", 0, FALSE, NoFrame, "fail")
            /\ UNCHANGED <<workerVars, pipeVars>>
       ELSE /\ m_running' = TRUE
            /\ thr' = [w \in Workers |->
                         IF w \in Spawned(created) THEN "running" ELSE thr[w]]
            /\ wpc' = [w \in Workers |->
                         IF w \in Spawned(created) THEN "loop" ELSE wpc[w]]
            /\ ctl' = IF created = 3 THEN "idle" ELSE "start_failed"
            /\ stopReturned' = FALSE
            /\ event' = Event(Main, "start", 0, FALSE, NoFrame,
                              IF created = 3 THEN "ok" ELSE "fail")
            /\ UNCHANGED <<held, m_camera, m_upscaler, m_display, m_buffer,
                           m_config, initRet, stopWasRunning>>
    /\ RingQuiet
    /\ PipeFrame

\* Pipeline::Impl::stop, lines 169-173: clear the flag, notify m_pipeline_cv
\* (no thread ever waits on m_pipeline_cv)
StopBegin ==
    /\ ctl \in {"idle", "start_failed"}
    /\ m_running' = FALSE
    /\ stopWasRunning' = m_running
    /\ ctl' = "join_capture"
    /\ event' = Event(Main, "stop_begin", 0, FALSE, NoFrame, "ok")
    /\ UNCHANGED <<workerVars, m_camera, m_upscaler, m_display, m_buffer,
                   m_config, thr, initRet, stopReturned>>
    /\ RingQuiet
    /\ PipeFrame

\* a join that does not wait for the thread to finish
StopJoinNoWait(w) ==
    /\ ctl = JoinStage(w)
    /\ thr' = [thr EXCEPT ![w] = "null"]
    /\ ctl' = AfterJoin(w)
    /\ event' = Event(Main, "join", 0, FALSE, NoFrame, "ok")
    /\ UNCHANGED <<workerVars, m_camera, m_upscaler, m_display, m_buffer,
                   m_config, m_running, initRet, stopWasRunning, stopReturned>>
    /\ RingQuiet
    /\ PipeFrame

\* Pipeline::Impl::stop, lines 176-189: join one worker thread if it exists
StopJoin(w) ==
    /\ ctl = JoinStage(w)
    /\ thr[w] # "null" => wpc[w] = "done"
    /\ thr' = [thr EXCEPT ![w] = "null"]
    /\ wpc' = [wpc EXCEPT ![w] = "none"]
    /\ ctl' = AfterJoin(w)
    /\ event' = Event(Main, "join", 0, FALSE, NoFrame, "ok")
    /\ UNCHANGED <<held, m_camera, m_upscaler, m_display, m_buffer,
                   m_config, m_running, initRet, stopWasRunning, stopReturned>>
    /\ RingQuiet
    /\ PipeFrame

\* Pipeline::Impl::stop, lines 191-196: clear the buffer and return
StopClear ==
    /\ ctl = "clear"
    /\ IF m_buffer # "null"
       THEN ClearRing(BUF)
       ELSE UNCHANGED <<rings, call, accepted, returned, rejected>>
    /\ event' = Event(Main, "stop", 0, FALSE, NoFrame, "ok")
    /\ ctl' = "idle"
    /\ stopReturned' = (stopWasRunning \/ stopReturned)
    /\ UNCHANGED <<nextFrame, workerVars, m_camera, m_upscaler, m_display,
                   m_buffer, m_config, m_running, thr, initRet, stopWasRunning>>
    /\ PipeFrame

PipeWorkerFrame ==
    /\ UNCHANGED pipeVars
    /\ PipeFrame

Alive(w) == thr[w] = "running" /\ wpc[w] \notin {"none", "done"}

\* the 'while (m_running.load())' test of the three loops
PipeLoopTest(w, body) ==
    /\ Alive(w) /\ wpc[w] = "loop"
    /\ wpc' = [wpc EXCEPT ![w] = IF m_running THEN body ELSE "done"]
    /\ event' = Event(w, IF m_running THEN "loop" ELSE "exit", 0, FALSE, NoFrame, "ok")
    /\ UNCHANGED held
    /\ RingQuiet
    /\ PipeWorkerFrame

\* captureLoop, lines 273-317: one iteration
PipeCapture ==
    /\ Alive(Capture) /\ wpc[Capture] = "capture"
    /\ \/ /\ event' = Event(Capture, "getframe", 0, FALSE, NoFrame, "fail")
          /\ RingQuiet
       \/ /\ nextFrame <= MaxFrames
          /\ pushFrame(Capture, BUF, nextFrame, FALSE)
          /\ nextFrame' = nextFrame + 1
    /\ wpc' = [wpc EXCEPT ![Capture] = "loop"]
    /\ UNCHANGED held
    /\ PipeWorkerFrame

\* where a worker goes when its blocking ring call has returned
AfterCall(w, next) ==
    /\ wpc' = [wpc EXCEPT ![w] = IF call'[w].op = "none" THEN next ELSE wpc[w]]
    /\ held' = [held EXCEPT ![w] = IF call'[w].op = "none" THEN event'.frame ELSE held[w]]

\* processingLoop, line 336: the blocking pop
PipePop ==
    /\ Alive(Processing) /\ wpc[Processing] = "pop"
    /\ popFrame(Processing, BUF, TRUE)
    /\ AfterCall(Processing, "popped")
    /\ UNCHANGED nextFrame
    /\ PipeWorkerFrame

PipePopResume ==
    /\ Alive(Processing) /\ wpc[Processing] = "pop"
    /\ popResume(Processing)
    /\ AfterCall(Processing, "popped")
    /\ UNCHANGED nextFrame
    /\ PipeWorkerFrame

PipeSpuriousWake ==
    /\ Alive(Processing)
    /\ spuriousWake(Processing)
    /\ UNCHANGED <<nextFrame, workerVars>>
    /\ PipeWorkerFrame

\* processingLoop, lines 339-360: the test of the popped frame and upscale()
PipeUpscale ==
    /\ Alive(Processing) /\ wpc[Processing] = "popped"
    /\ IF held[Processing] = NoFrame
       THEN /\ wpc' = [wpc EXCEPT ![Processing] = IF ~m_running THEN "done" ELSE "loop"]
            /\ event' = Event(Processing, "skip", 0, FALSE, NoFrame, "ok")
       ELSE \E upscale_success \in BOOLEAN :
               /\ wpc' = [wpc EXCEPT ![Processing] =
                            IF upscale_success THEN "render" ELSE "loop"]
               /\ event' = Event(Processing, "upscale", 0, FALSE, held[Processing],
                                 IF upscale_success THEN "ok" ELSE "fail")
    /\ UNCHANGED held
    /\ RingQuiet
    /\ PipeWorkerFrame

\* processingLoop, lines 363-376: renderFrame and the latency update
PipeRender ==
    /\ Alive(Processing) /\ wpc[Processing] = "render"
    /\ wpc' = [wpc EXCEPT ![Processing] = "loop"]
    /\ event' = Event(Processing, "render", 0, FALSE, held[Processing], "ok")
    /\ UNCHANGED held
    /\ RingQuiet
    /\ PipeWorkerFrame

\* Pipeline::Impl::captureLoop
captureLoop ==
    \/ PipeLoopTest(Capture, "capture")
    \/ PipeCapture

\* Pipeline::Impl::processingLoop
processingLoop ==
    \/ PipeLoopTest(Processing, "pop")
    \/ PipePop
    \/ PipePopResume
    \/ PipeUpscale
    \/ PipeRender

\* Pipeline::Impl::displayLoop
displayLoop == PipeLoopTest(Display, "loop")

InitPipeline ==
    /\ InitRingVars(1, 1)
    /\ \E tw \in {0, 2}, th \in {0, 2}, bs \in 1 .. MaxCapacity :
          InitProgVars("pipeline", tw, th, bs)
    /\ StagesIdle

NextPipeline ==
    \/ \E camerasFound, cameraOk, displayOk \in BOOLEAN :
          Initialize(camerasFound, cameraOk, displayOk)
    \/ \E created \in 0 .. 3 : Start(created)
    \/ StopBegin
    \/ \E w \in Workers : StopJoin(w)
    \/ StopClear
    \/ captureLoop
    \/ processingLoop
    \/ displayLoop
    \/ PipeSpuriousWake

SpecPipeline == InitPipeline /\ [][NextPipeline]_vars

\* every thread that can run is eventually scheduled; a spurious wake-up is
\* never guaranteed, and the caller of initialize/start/stop may stay idle
FairSpecPipeline ==
    /\ SpecPipeline
    /\ WF_vars(captureLoop)
    /\ WF_vars(processingLoop)
    /\ WF_vars(displayLoop)
    /\ WF_vars(\E w \in Workers : StopJoin(w))
    /\ WF_vars(StopClear)
    /\ WF_vars(ctl = "start_failed" /\ StopBegin)

\* ------------------------------------------ the Pipeline object (pipeline.cpp 399-455)
\* Pipeline's own functions run on the thread that owns the object, between
\* two calls of Impl (ctl = "idle").
implVars == <<m_camera, m_upscaler, m_display, m_buffer, m_config, m_running,
              thr, ctl, initRet, stopWasRunning, stopReturned>>

OwnerFrame ==
    /\ prog = "pipeline"
    /\ UNCHANGED <<prog, workerVars, implVars, cliVars, stageVars, memVars>>
    /\ RingQuiet

\* Pipeline::initialize, lines 410-412
PipelineInitialize(camerasFound, cameraOk, displayOk) ==
    /\ pipeline.m_members = "live"
    /\ Initialize(camerasFound, cameraOk, displayOk)

\* Pipeline::start, lines 414-416
PipelineStart(created) ==
    /\ pipeline.m_members = "live"
    /\ Start(created)

\* Pipeline::stop, lines 418-420 (and the stop() in the catch of start())
PipelineStop ==
    /\ pipeline.m_members = "live"
    /\ StopBegin

\* Pipeline::setTargetResolution, lines 438-446
setTargetResolution(width, height) ==
    /\ ctl = "idle" /\ pipeline.m_members = "live"
    /\ pipeline' = IF m_running THEN pipeline
                   ELSE [pipeline EXCEPT !.m_config.target_width = width,
                                         !.m_config.target_height = height]
    /\ event' = Event(Main, "setTargetResolution", 0, FALSE, NoFrame,
                      IF m_running THEN "fail" ELSE "ok")
    /\ OwnerFrame

\* Pipeline::setBufferSize, lines 448-455
setBufferSize(n) ==
    /\ ctl = "idle" /\ pipeline.m_members = "live"
    /\ pipeline' = IF m_running THEN pipeline
                   ELSE [pipeline EXCEPT !.m_config.buffer_size = n]
    /\ event' = Event(Main, "setBufferSize", 0, FALSE, NoFrame,
                      IF m_running THEN "fail" ELSE "ok")
    /\ OwnerFrame

\* Pipeline::~Pipeline = default, line 408: the members are destroyed in the
\* reverse order of their declaration (pipeline.h 143-149), m_config, m_timer,
\* m_fps and m_latency first, m_impl last
DestroyMembers ==
    /\ ctl = "idle" /\ pipeline.m_members = "live"
    /\ pipeline' = [pipeline EXCEPT !.m_members = "destroyed"]
    /\ event' = Event(Main, "destroy_members", 0, FALSE, NoFrame, "ok")
    /\ OwnerFrame

\* Pipeline::Impl::~Impl, lines 29-34: stop() if the pipeline is running
DestroyImplStop ==
    /\ pipeline.m_members = "destroyed" /\ pipeline.m_impl = "live"
    /\ ctl = "idle" /\ m_running
    /\ StopBegin

\* Pipeline::Impl::~Impl, after line 33: the members of Impl are destroyed
DestroyImpl ==
    /\ pipeline.m_members = "destroyed" /\ pipeline.m_impl = "live"
    /\ ctl = "idle" /\ ~m_running
    /\ pipeline' = [pipeline EXCEPT !.m_impl = "destroyed"]
    /\ event' = Event(Main, "destroy_impl", 0, FALSE, NoFrame, "ok")
    /\ OwnerFrame

\* the target sizes a caller asks for
RequestedSizes == {<<2, 2>>, <<4, 4>>}

InitOwner ==
    /\ InitRingVars(1, 1)
    /\ InitProgVars("pipeline", 2, 2, 1)
    /\ StagesIdle

NextOwner ==
    \/ \E camerasFound, cameraOk, displayOk \in BOOLEAN :
          PipelineInitialize(camerasFound, cameraOk, displayOk)
    \/ \E created \in 0 .. 3 : PipelineStart(created)
    \/ PipelineStop
    \/ \E t \in RequestedSizes : setTargetResolution(t[1], t[2])
    \/ \E n \in 1 .. MaxCapacity : setBufferSize(n)
    \/ DestroyMembers
    \/ DestroyImplStop
    \/ DestroyImpl
    \/ \E w \in Workers : StopJoin(w)
    \/ StopClear
    \/ captureLoop
    \/ processingLoop
    \/ displayLoop
    \/ PipeSpuriousWake

SpecOwner == InitOwner /\ [][NextOwner]_vars

\* ------------------------------------------ command-line pipeline (main.cpp)
CliFrame == prog = "cli" /\ UNCHANGED <<prog, pipeVars, stageVars, memVars>>

\* the 'while (g_running)' test of the three thread functions
CliLoopTest(w, body) ==
    /\ wpc[w] = "loop"
    /\ wpc' = [wpc EXCEPT ![w] = IF g_running THEN body ELSE "done"]
    /\ event' = Event(w, IF g_running THEN "loop" ELSE "exit", 0, FALSE, NoFrame, "ok")
    /\ UNCHANGED <<held, cliVars>>
    /\ RingQuiet
    /\ CliFrame

\* a capture thread that pushes whatever the occupancy of the ring
bufferHasRoomAlways(r) == TRUE

\* capture_thread, lines 192-194: buffer_utilization < 0.9
bufferHasRoom(r) == size(r) * 10 < capacity(r) * 9

\* capture_thread, lines 157-216 up to the push: getFrame and the
\* utilization test
CliAcquire ==
    /\ wpc[Capture] = "acquire"
    /\ \/ /\ source_open /\ nextFrame <= MaxFrames
          /\ nextFrame' = nextFrame + 1
          /\ IF bufferHasRoom(rings[RAW])
             THEN /\ wpc' = [wpc EXCEPT ![Capture] = "push"]
                  /\ held' = [held EXCEPT ![Capture] = nextFrame]
                  /\ event' = Event(Capture, "getframe", RAW, FALSE, nextFrame, "ok")
                  /\ UNCHANGED <<g_frames_dropped, rejected>>
             ELSE /\ wpc' = [wpc EXCEPT ![Capture] = "loop"]
                  /\ held' = [held EXCEPT ![Capture] = NoFrame]
                  /\ g_frames_dropped' = g_frames_dropped + 1
                  /\ rejected' = rejected \cup {nextFrame}
                  /\ event' = Event(Capture, "drop", RAW, FALSE, nextFrame, "fail")
          /\ UNCHANGED <<g_running, source_open>>
       \/ /\ source_open
          /\ wpc' = [wpc EXCEPT ![Capture] = "loop"]
          /\ event' = Event(Capture, "getframe", RAW, FALSE, NoFrame, "fail")
          /\ UNCHANGED <<held, nextFrame, g_frames_dropped, rejected,
                         g_running, source_open>>
       \/ /\ source_open
          /\ source_open' = FALSE
          /\ g_running' = FALSE
          /\ wpc' = [wpc EXCEPT ![Capture] = "done"]
          /\ event' = Event(Capture, "eof", RAW, FALSE, NoFrame, "fail")
          /\ UNCHANGED <<held, nextFrame, g_frames_dropped, rejected>>
    /\ UNCHANGED <<rings, call, accepted, returned,
                   g_frames_captured, g_frames_processed, g_frames_displayed>>
    /\ CliFrame

\* capture_thread, lines 200-205: the counters after pushFrame has returned
CapturePushed ==
    /\ wpc' = [wpc EXCEPT ![Capture] =
                 IF call'[Capture].op = "none" THEN "loop" ELSE "push"]
    /\ g_frames_captured' =
          IF call'[Capture].op = "none" /\ event'.status = "ok"
          THEN g_frames_captured + 1 ELSE g_frames_captured
    /\ g_frames_dropped' =
          IF call'[Capture].op = "none" /\ event'.status = "fail"
          THEN g_frames_dropped + 1 ELSE g_frames_dropped
    /\ UNCHANGED <<held, nextFrame, g_running, source_open,
                   g_frames_processed, g_frames_displayed>>

\* capture_thread, line 197: pushFrame(frame, true)
CliCapturePush ==
    /\ wpc[Capture] = "push"
    /\ pushFrame(Capture, RAW, held[Capture], TRUE)
    /\ CapturePushed
    /\ CliFrame

\* processing_thread, line 240: popFrame(input_frame, true)
CliPop ==
    /\ wpc[Processing] = "pop"
    /\ popFrame(Processing, RAW, TRUE)
    /\ AfterCall(Processing, "popped")
    /\ UNCHANGED <<nextFrame, cliVars>>
    /\ CliFrame

\* a thread woken inside its blocking ring call re-evaluates the predicate:
\* capture_thread inside pushFrame (line 197), processing_thread inside
\* popFrame (line 240)
CliResume(w) ==
    /\ call[w].st = "notified"
    /\ IF call[w].op = "push"
       THEN /\ w = Capture /\ wpc[w] = "push"
            /\ pushResume(w)
            /\ CapturePushed
       ELSE /\ w = Processing /\ wpc[w] = "pop"
            /\ popResume(w)
            /\ AfterCall(w, "popped")
            /\ UNCHANGED <<nextFrame, cliVars>>
    /\ CliFrame

\* processing_thread, lines 243-325: the test of the popped frame, upscale(),
\* the resize that replaces a failed upscale, blending and text overlay
CliProcess ==
    /\ wpc[Processing] = "popped"
    /\ IF held[Processing] = NoFrame
       THEN /\ wpc' = [wpc EXCEPT ![Processing] = "loop"]
            /\ event' = Event(Processing, "skip", 0, FALSE, NoFrame, "ok")
       ELSE \E upscale_success \in BOOLEAN :
               /\ wpc' = [wpc EXCEPT ![Processing] = "push"]
               /\ event' = Event(Processing, "upscale", 0, FALSE, held[Processing],
                                 IF upscale_success THEN "ok" ELSE "fail")
    /\ UNCHANGED <<held, cliVars>>
    /\ RingQuiet
    /\ CliFrame

\* processing_thread, lines 327-343: pushFrame(processed_frame, false)
CliProcessedPush ==
    /\ wpc[Processing] = "push"
    /\ pushFrame(Processing, PROCESSED, held[Processing], FALSE)
    /\ wpc' = [wpc EXCEPT ![Processing] = "loop"]
    /\ g_frames_processed' =
          IF event'.status = "ok" THEN g_frames_processed + 1 ELSE g_frames_processed
    /\ UNCHANGED <<held, nextFrame, g_running, source_open, g_frames_captured,
                   g_frames_displayed, g_frames_dropped>>
    /\ CliFrame

\* displayLoop of main.cpp, lines 416-425: popFrame(frame, false)
CliDisplayPop ==
    /\ wpc[Display] = "pop"
    /\ popFrame(Display, PROCESSED, FALSE)
    /\ wpc' = [wpc EXCEPT ![Display] = IF event'.status = "ok" THEN "show" ELSE "loop"]
    /\ held' = [held EXCEPT ![Display] =
                  IF event'.status = "ok" THEN event'.frame ELSE held[Display]]
    /\ UNCHANGED <<nextFrame, cliVars>>
    /\ CliFrame

\* displayLoop of main.cpp, lines 485-531: imshow and the key commands
CliShow ==
    /\ wpc[Display] = "show"
    /\ \E quit \in BOOLEAN :
          /\ g_running' = IF quit THEN FALSE ELSE g_running
          /\ wpc' = [wpc EXCEPT ![Display] = IF quit THEN "done" ELSE "loop"]
    /\ g_frames_displayed' = g_frames_displayed + 1
    /\ event' = Event(Display, "show", 0, FALSE, held[Display], "ok")
    /\ UNCHANGED <<held, source_open, g_frames_captured, g_frames_processed,
                   g_frames_dropped>>
    /\ RingQuiet
    /\ CliFrame

CliSpuriousWake ==
    /\ \E w \in {Capture, Processing} : spuriousWake(w)
    /\ UNCHANGED <<nextFrame, workerVars, cliVars>>
    /\ CliFrame

\* capture_thread of main.cpp
capture_thread ==
    \/ CliLoopTest(Capture, "acquire")
    \/ CliAcquire
    \/ CliCapturePush
    \/ CliResume(Capture)

\* processing_thread of main.cpp
processing_thread ==
    \/ CliLoopTest(Processing, "pop")
    \/ CliPop
    \/ CliResume(Processing)
    \/ CliProcess
    \/ CliProcessedPush

\* displayLoop of main.cpp
cliDisplayLoop ==
    \/ CliLoopTest(Display, "pop")
    \/ CliDisplayPop
    \/ CliShow

\* main(), lines 807-837: the two rings and the three threads
InitCLI ==
    /\ \E cr \in 1 .. MaxCapacity, cp \in 1 .. MaxCapacity : InitRingVars(cr, cp)
    /\ prog = "cli"
    /\ wpc = [w \in Workers |-> "loop"]
    /\ held = [w \in Workers |-> NoFrame]
    /\ m_camera = "null" /\ m_upscaler = "null"
    /\ m_display = "null" /\ m_buffer = "null"
    /\ m_config = [target_width |-> 1, target_height |-> 1, buffer_size |-> 1]
    /\ pipeline = Pipeline(m_config)
    /\ m_running = FALSE
    /\ thr = [w \in Workers |-> "running"]
    /\ ctl = "idle"
    /\ initRet = "none"
    /\ stopWasRunning = FALSE
    /\ stopReturned = FALSE
    /\ g_running = TRUE
    /\ source_open = TRUE
    /\ g_frames_captured = 0 /\ g_frames_processed = 0
    /\ g_frames_displayed = 0 /\ g_frames_dropped = 0
    /\ StagesIdle

NextCLI ==
    \/ capture_thread
    \/ processing_thread
    \/ cliDisplayLoop
    \/ CliSpuriousWake

SpecCLI == InitCLI /\ [][NextCLI]_vars

\* the three threads of main() are scheduled as long as they can run; a
\* spurious wake-up is never guaranteed
FairSpecCLI ==
    /\ SpecCLI
    /\ WF_vars(capture_thread)
    /\ WF_vars(processing_thread)
    /\ WF_vars(cliDisplayLoop)

\* both programs that own a capture loop
InitPrograms == InitPipeline \/ InitCLI
NextPrograms == NextPipeline \/ NextCLI
SpecPrograms == InitPrograms /\ [][NextPrograms]_vars

\* ------------------------------ calls on an Upscaler and on a DnnSuperRes
\* the sizes of the frames handed to upscale(): an empty frame, a frame below
\* the 1280x720 limit and two frames above it
InputSizes == {<<0, 0>>, <<640, 360>>, <<1920, 1080>>, <<1000, 1000>>}
\* the target sizes a caller asks for: an invalid one and two valid ones
TargetSizes == {<<0, 0>>, <<1280, 720>>, <<2560, 1440>>}
\* processing and target times, in milliseconds
Times == {10, 15, 16}

\* what a call on a stage object leaves alone
StageFrame == UNCHANGED <<ringVars, prog, workerVars, pipeVars, cliVars, memVars>>

UpFrame ==
    prog = "upscaler" /\ UNCHANGED <<gpu_available, superres, tcVars, fxVars>> /\ StageFrame

\* Upscaler upscaler(algorithm, use_gpu)
UpConstruct(algorithm, use_gpu) ==
    /\ upscaler' = Upscaler(algorithm, use_gpu)
    /\ upEvent' = [Call("construct") EXCEPT !.algorithm = algorithm,
                                            !.use_gpu = use_gpu]
    /\ UpFrame

\* upscaler.initialize(target_width, target_height)
UpInitialize(target_width, target_height, loaded, gpuThrows) ==
    LET r == initialize(upscaler, target_width, target_height, loaded, gpuThrows)
    IN /\ upscaler' = r.u
       /\ upEvent' = [Call("initialize") EXCEPT !.ret = r.ret,
                                                !.width = target_width,
                                                !.height = target_height]
       /\ UpFrame

\* upscaler.upscale(input, output)
UpUpscale(input, inference, cuda) ==
    LET r == upscale(upscaler, input, inference, cuda)
    IN /\ upEvent' = [Call("upscale") EXCEPT !.ret = r.ret, !.input = input,
                                             !.out = r.out,
                                             !.inference = inference]
       /\ UNCHANGED upscaler
       /\ UpFrame

\* upscaler.setAlgorithm(algorithm)
UpSetAlgorithm(algorithm, loaded, gpuThrows) ==
    /\ upscaler' = setAlgorithm(upscaler, algorithm, loaded, gpuThrows)
    /\ upEvent' = [Call("setAlgorithm") EXCEPT !.algorithm = algorithm]
    /\ UpFrame

\* upscaler.setUseGPU(use_gpu)
UpSetUseGPU(use_gpu, loaded, gpuThrows) ==
    LET r == setUseGPU(upscaler, use_gpu, loaded, gpuThrows)
    IN /\ upscaler' = r.u
       /\ upEvent' = [Call("setUseGPU") EXCEPT !.ret = r.ret, !.use_gpu = use_gpu]
       /\ UpFrame

\* upscaler.adjustQualityForPerformance(processing_time, target_time)
UpAdjust(processing_time, target_time, loaded, gpuThrows) ==
    LET r == adjustQualityForPerformance(upscaler, processing_time, target_time,
                                         loaded, gpuThrows)
    IN /\ upscaler' = r.u
       /\ upEvent' = [Call("adjustQualityForPerformance") EXCEPT
                         !.ret = r.ret,
                         !.algorithm = upscaler.m_algorithm,
                         !.processing_time = processing_time,
                         !.target_time = target_time]
       /\ UpFrame

InitUpscaler ==
    /\ InitRingVars(1, 1)
    /\ InitProgVars("upscaler", 1, 1, 1)
    /\ gpu_available \in Machines
    /\ \E algorithm \in Algorithms, use_gpu \in BOOLEAN :
          /\ upscaler = Upscaler(algorithm, use_gpu)
          /\ upEvent = [Call("construct") EXCEPT !.algorithm = algorithm,
                                                 !.use_gpu = use_gpu]
    /\ superres = DnnSuperRes(4, "FSRCNN")
    /\ TemporalIdle
    /\ FiltersIdle

NextUpscaler ==
    \/ \E algorithm \in Algorithms, use_gpu \in BOOLEAN : UpConstruct(algorithm, use_gpu)
    \/ \E dims \in TargetSizes, loaded, gpuThrows \in BOOLEAN :
          UpInitialize(dims[1], dims[2], loaded, gpuThrows)
    \/ \E dims \in InputSizes, inference \in Inferences, cuda \in CudaOutcomes :
          UpUpscale(Mat(dims[1], dims[2], <<>>), inference, cuda)
    \/ \E algorithm \in Algorithms, loaded, gpuThrows \in BOOLEAN :
          UpSetAlgorithm(algorithm, loaded, gpuThrows)
    \/ \E use_gpu, loaded, gpuThrows \in BOOLEAN :
          UpSetUseGPU(use_gpu, loaded, gpuThrows)
    \/ \E processing_time \in Times, target_time \in Times, loaded, gpuThrows \in BOOLEAN :
          UpAdjust(processing_time, target_time, loaded, gpuThrows)

SpecUpscaler == InitUpscaler /\ [][NextUpscaler]_vars

SrFrame ==
    prog = "superres" /\ UNCHANGED <<gpu_available, upscaler, tcVars, fxVars>> /\ StageFrame

\* DnnSuperRes superres(model_path, model_name, 4, type)
SrConstruct(type) ==
    /\ superres' = DnnSuperRes(4, type)
    /\ upEvent' = [Call("dnn_construct") EXCEPT !.algorithm = type]
    /\ SrFrame

\* superres.setTargetSize(width, height)
SrSetTargetSize(width, height) ==
    /\ superres' = DnnSetTargetSize(superres, width, height)
    /\ upEvent' = [Call("dnn_setTargetSize") EXCEPT !.width = width, !.height = height]
    /\ SrFrame

\* superres.setUseGPU(use_gpu)
SrSetUseGPU(use_gpu) ==
    /\ superres' = DnnSetUseGPU(superres, use_gpu)
    /\ upEvent' = [Call("dnn_setUseGPU") EXCEPT !.use_gpu = use_gpu]
    /\ SrFrame

\* superres.initialize()
SrInitialize(loaded) ==
    /\ superres' = DnnInitialize(superres, loaded)
    /\ upEvent' = [Call("dnn_initialize") EXCEPT !.ret = loaded]
    /\ SrFrame

\* superres.upscale(input, output)
SrUpscale(input, inference) ==
    LET r == DnnUpscale(superres, input, inference)
    IN /\ upEvent' = [Call("dnn_upscale") EXCEPT !.ret = r.ret, !.input = input,
                                                 !.out = r.out,
                                                 !.inference = inference]
       /\ UNCHANGED superres
       /\ SrFrame

InitDnn ==
    /\ InitRingVars(1, 1)
    /\ InitProgVars("superres", 1, 1, 1)
    /\ gpu_available \in Machines
    /\ upscaler = Upscaler("BILINEAR", TRUE)
    /\ \E type \in ModelTypes :
          /\ superres = DnnSuperRes(4, type)
          /\ upEvent = [Call("dnn_construct") EXCEPT !.algorithm = type]
    /\ TemporalIdle
    /\ FiltersIdle

NextDnn ==
    \/ \E type \in ModelTypes : SrConstruct(type)
    \/ \E dims \in TargetSizes : SrSetTargetSize(dims[1], dims[2])
    \/ \E use_gpu \in BOOLEAN : SrSetUseGPU(use_gpu)
    \/ \E loaded \in BOOLEAN : SrInitialize(loaded)
    \/ \E dims \in InputSizes, inference \in Inferences :
          SrUpscale(Mat(dims[1], dims[2], <<>>), inference)

SpecDnn == InitDnn /\ [][NextDnn]_vars

\* the two stage objects that upscale
InitStages == InitUpscaler \/ InitDnn
NextStages == NextUpscaler \/ NextDnn
SpecStages == InitStages /\ [][NextStages]_vars

\* ------------------------------------ calls on a TemporalConsistency object
\* Config::buffer_size values a caller configures
BufferSizes == {1, 2, 3}
\* the positions of the history, newest first, a blend can reach
WarpPositions == 0 .. 2

\* a call is made by a thread whose earlier calls have returned
TcFrame ==
    /\ prog = "temporal" /\ tcEvent.outcome = "returned"
    /\ UNCHANGED <<upVars, fxVars>> /\ StageFrame

\* how a process() call ends: it returns, or its trimming loop has popped an
\* empty deque, which is undefined behaviour: the loop runs on (its test
\* 'size() >= 0' on an unsigned size is always true) or the program crashes
Outcomes(r) == IF r.defined THEN {"returned"} ELSE {"hang", "crash"}

\* temporal_consistency.initialize()
TcInitializeCall ==
    /\ temporal' = TcInitialize(temporal)
    /\ tcEvent' = [TcCall("initialize") EXCEPT !.before = temporal]
    /\ UNCHANGED <<tcFrames, tcShots>>
    /\ TcFrame

\* temporal_consistency.reset()
TcResetCall ==
    /\ temporal' = TcReset(temporal)
    /\ tcEvent' = [TcCall("reset") EXCEPT !.before = temporal]
    /\ UNCHANGED <<tcFrames, tcShots>>
    /\ TcFrame

\* temporal_consistency.setConfig(config)
TcSetConfigCall(buffer_size) ==
    /\ temporal' = TcSetConfig(temporal, TcConfig(buffer_size))
    /\ tcEvent' = [TcCall("setConfig") EXCEPT !.before = temporal]
    /\ UNCHANGED <<tcFrames, tcShots>>
    /\ TcFrame

\* temporal_consistency.process(cv::Mat(), output)
TcProcessEmpty ==
    LET r == process(temporal, NoStreamFrame, <<>>, FALSE, {})
    IN /\ temporal' = r.t
       /\ tcEvent' = [TcCall("process") EXCEPT !.before = temporal,
                                               !.ret = r.ret, !.out = r.out]
       /\ UNCHANGED <<tcFrames, tcShots>>
       /\ TcFrame

\* temporal_consistency.process(frame, output) with the next frame of the
\* stream; the score exists when process() reaches detectSceneChange
TcProcess(measured, flowOk, warpOk) ==
    /\ tcFrames < MaxCalls
    /\ (~temporal.m_initialized \/ temporal.m_frame_buffer = <<>>) => measured = <<>>
    /\ LET scene_change == detectSceneChange(temporal, measured)
           shot == IF scene_change THEN tcShots + 1 ELSE tcShots
           frame == StreamFrame(tcFrames + 1, shot)
           r == process(temporal, frame, measured, flowOk, warpOk)
       IN /\ temporal' = r.t
          /\ \E outcome \in Outcomes(r) :
                tcEvent' = [TcCall("process") EXCEPT
                               !.before = temporal, !.frame = frame,
                               !.measured = measured, !.ret = r.ret,
                               !.out = r.out, !.outcome = outcome]
          /\ tcFrames' = tcFrames + 1
          /\ tcShots' = shot
    /\ TcFrame

InitTemporal ==
    /\ InitRingVars(1, 1)
    /\ InitProgVars("temporal", 1, 1, 1)
    /\ StagesIdle

NextTemporal ==
    \/ TcInitializeCall
    \/ TcResetCall
    \/ \E buffer_size \in BufferSizes : TcSetConfigCall(buffer_size)
    \/ TcProcessEmpty
    \/ \E measured \in Measures, flowOk \in BOOLEAN,
          warpOk \in SUBSET WarpPositions :
          TcProcess(measured, flowOk, warpOk)

SpecTemporal == InitTemporal /\ [][NextTemporal]_vars

\* the smallest Config::buffer_size values
SmallBufferSizes == {0, 1}

NextTrimming ==
    \/ TcInitializeCall
    \/ TcResetCall
    \/ \E buffer_size \in SmallBufferSizes : TcSetConfigCall(buffer_size)
    \/ TcProcessEmpty
    \/ \E measured \in Measures, flowOk \in BOOLEAN,
          warpOk \in SUBSET WarpPositions :
          TcProcess(measured, flowOk, warpOk)

SpecTrimming == InitTemporal /\ [][NextTrimming]_vars

\* --------------- calls on an AdaptiveSharpening and a SelectiveBilateral
\* the frame handed to process(): an empty one or a 640x360 frame
FxInputs == {EmptyMat, Mat(640, 360, <<>>)}
\* the caller's output image before the call: never written, or the result
\* of processing an earlier frame
FxPriors == {EmptyMat, Mat(640, 360, <<Stage("earlier frame", "none")>>)}
\* the configurations a caller of SelectiveBilateral installs: the default
\* one, the three modes on the CPU, and pyramids of 0 and 6 scales
SbConfigs ==
    {SbConfig(TRUE, TRUE, 3, TRUE), SbConfig(TRUE, TRUE, 3, FALSE),
     SbConfig(FALSE, TRUE, 3, FALSE), SbConfig(FALSE, FALSE, 3, FALSE),
     SbConfig(TRUE, FALSE, 0, FALSE), SbConfig(TRUE, TRUE, 6, FALSE)}

FxFrame ==
    prog \in {"sharpening", "bilateral"} /\ UNCHANGED <<upVars, tcVars>> /\ StageFrame

\* sharpening.initialize(), adaptive_sharpening.cpp 23-41
AsInitializeCall ==
    /\ sharpening' = [sharpening EXCEPT !.m_initialized = TRUE]
    /\ fxEvent' = FxCall("as_initialize")
    /\ UNCHANGED <<bilateral, sbCall>>
    /\ prog = "sharpening" /\ FxFrame

\* sharpening.setConfig(config), adaptive_sharpening.cpp 43-45
AsSetConfigCall(adaptive_sigma) ==
    /\ sharpening' = [sharpening EXCEPT !.m_config.adaptive_sigma = adaptive_sigma]
    /\ fxEvent' = FxCall("as_setConfig")
    /\ UNCHANGED <<bilateral, sbCall>>
    /\ prog = "sharpening" /\ FxFrame

\* sharpening.process(input, output)
AsProcessCall(input, prior, failed) ==
    LET r == AsProcess(sharpening, input, prior, failed)
    IN /\ fxEvent' = [FxCall("as_process") EXCEPT
                         !.ret = r.ret, !.input = input, !.prior = prior,
                         !.out = r.out, !.failed = failed]
       /\ UNCHANGED <<sharpening, bilateral, sbCall>>
       /\ prog = "sharpening" /\ FxFrame

\* bilateral.initialize()
SbInitializeCall ==
    /\ bilateral' = SbInitialize(bilateral)
    /\ fxEvent' = FxCall("sb_initialize")
    /\ UNCHANGED <<sharpening, sbCall>>
    /\ prog = "bilateral" /\ FxFrame

\* bilateral.setConfig(config), selective_bilateral.cpp 49-51: a plain
\* assignment, whatever another thread is doing in process()
SbSetConfigCall(config) ==
    /\ bilateral' = [bilateral EXCEPT !.m_config = config]
    /\ fxEvent' = FxCall("sb_setConfig")
    /\ UNCHANGED <<sharpening, sbCall>>
    /\ prog = "bilateral" /\ FxFrame

\* bilateral.process(input, output) up to the choice of its branch, lines 57-75
SbProcessBegin(input) ==
    /\ sbCall = NoSbCall
    /\ IF ~bilateral.m_initialized \/ IsEmpty(input)
       THEN /\ fxEvent' = [FxCall("sb_process") EXCEPT !.ret = FALSE, !.input = input]
            /\ UNCHANGED sbCall
       ELSE /\ sbCall' = [FxCall("sb_process") EXCEPT
                             !.input = input,
                             !.mode = SbMode(bilateral.m_config),
                             !.began = <<bilateral.m_config>>]
            /\ fxEvent' = FxCall("sb_enter")
    /\ UNCHANGED <<sharpening, bilateral>>
    /\ prog = "bilateral" /\ FxFrame

\* the branch of the bilateral.process call in progress, up to its return
SbProcessEnd(failed) ==
    /\ sbCall # NoSbCall
    /\ LET config == bilateral.m_config
           r == SbApply(sbCall.mode, config, sbCall.input, failed)
       IN fxEvent' = [sbCall EXCEPT
                         !.ret = r.ret, !.out = r.out, !.failed = failed,
                         !.levels = IF sbCall.mode = "multiscale"
                                    THEN Levels(config) ELSE 0,
                         !.ended = <<config>>]
    /\ sbCall' = NoSbCall
    /\ UNCHANGED <<sharpening, bilateral>>
    /\ prog = "bilateral" /\ FxFrame

FxInit(p) ==
    /\ InitRingVars(1, 1)
    /\ InitProgVars(p, 1, 1, 1)
    /\ gpu_available \in Machines
    /\ upscaler = Upscaler("BILINEAR", TRUE)
    /\ superres = DnnSuperRes(4, "FSRCNN")
    /\ upEvent = Call("none")
    /\ TemporalIdle
    /\ FiltersIdle

InitSharpening == FxInit("sharpening")

NextSharpening ==
    \/ AsInitializeCall
    \/ \E adaptive_sigma \in BOOLEAN : AsSetConfigCall(adaptive_sigma)
    \/ \E input \in FxInputs, prior \in FxPriors, failed \in SUBSET AsSteps :
          AsProcessCall(input, prior, failed)

SpecSharpening == InitSharpening /\ [][NextSharpening]_vars

InitBilateral == FxInit("bilateral")

NextBilateral ==
    \/ SbInitializeCall
    \/ \E config \in SbConfigs : SbSetConfigCall(config)
    \/ \E input \in FxInputs : SbProcessBegin(input)
    \/ \E failed \in SUBSET SbSteps : SbProcessEnd(failed)

SpecBilateral == InitBilateral /\ [][NextBilateral]_vars

\* --------------------- frame storage behind a ring (cv::Mat data buffers)
\* In this harness the ring slots hold references to pixel buffers, NoFrame
\* being cv::Mat(); heap gives the picture each buffer holds.
\* the buffers the cv::Mat headers of the producer, of ring r and of the
\* consumer refer to
InUse(prod, r, handles) ==
    ({prod} \cup {r.m_frames[i] : i \in DOMAIN r.m_frames}
       \cup {h.ref : h \in handles}) \ {NoFrame}

\* a newly allocated buffer
Fresh ==
    LET free == StorageIds \ InUse(producer, rings[RAW], popped)
    IN CHOOSE id \in free : \A other \in free : id <= other

\* cv::Mat reference counting: a buffer no header refers to is deallocated
Sweep(h, live) == [id \in StorageIds |-> IF id \in live THEN h[id] ELSE NoFrame]

\* a push that stores the producer's cv::Mat header in the slot
SlotStorageShared(slot, src) == src

\* frame.copyTo(m_frames[m_head]), frame_buffer.cpp 30-37: the buffer the slot
\* refers to afterwards; cv::Mat::create keeps a buffer of the right size
SlotStorage(slot, src) == IF slot = NoFrame THEN Fresh ELSE slot

\* a frame the consumer holds: its buffer and the picture it held when popped
Handle(ref, frame) == [ref |-> ref, frame |-> frame]

MemFrame ==
    prog = "storage" /\ UNCHANGED <<prog, wpc, pipeVars, cliVars, stageVars>>

\* camera.getFrame(frame), main.cpp 159 / camera.cpp 310-326: the capture
\* thread's frame is written in place, or into a new buffer
MemGetFrame ==
    /\ nextFrame <= MaxFrames
    /\ \E ref \in {producer, Fresh} \ {NoFrame} :
          /\ producer' = ref
          /\ heap' = Sweep([heap EXCEPT ![ref] = nextFrame],
                           InUse(ref, rings[RAW], popped))
    /\ held' = [held EXCEPT ![Capture] = nextFrame]
    /\ nextFrame' = nextFrame + 1
    /\ event' = Event(Capture, "getFrame", 0, FALSE, nextFrame, "ok")
    /\ UNCHANGED <<rings, call, accepted, returned, rejected, popped, snap>>
    /\ MemFrame

\* buffer.pushFrame(frame, false) of the frame just acquired
MemPush ==
    /\ held[Capture] # NoFrame
    /\ LET r == rings[RAW]
           ref == SlotStorage(r.m_frames[r.m_head], producer)
       IN /\ pushFrame(Capture, RAW, ref, FALSE)
          /\ IF full(r)
             THEN UNCHANGED <<heap, snap>>
             ELSE /\ heap' = [heap EXCEPT ![ref] = heap[producer]]
                  /\ snap' = [snap EXCEPT ![ref] = heap[producer]]
    /\ held' = [held EXCEPT ![Capture] = NoFrame]
    /\ UNCHANGED <<nextFrame, producer, popped>>
    /\ MemFrame

\* buffer.popFrame(frame, false) by the processing thread, which keeps the
\* frame (main.cpp 238, 277)
MemPop ==
    /\ Cardinality(popped) < MaxHeld
    /\ popFrame(Processing, RAW, FALSE)
    /\ popped' = IF empty(rings[RAW]) THEN popped
                 ELSE popped \cup {Handle(Front(rings[RAW]), heap[Front(rings[RAW])])}
    /\ UNCHANGED <<nextFrame, heap, producer, snap, held>>
    /\ MemFrame

\* the processing thread lets go of a frame it popped
MemRelease(h) ==
    /\ popped' = popped \ {h}
    /\ heap' = Sweep(heap, InUse(producer, rings[RAW], popped'))
    /\ snap' = Sweep(snap, InUse(producer, rings[RAW], popped'))
    /\ event' = Event(Processing, "release", 0, FALSE, h.ref, "ok")
    /\ UNCHANGED <<rings, call, accepted, returned, rejected, nextFrame,
                   producer, held>>
    /\ MemFrame

\* buffer.clear()
MemClear ==
    /\ clear(Capture, RAW)
    /\ heap' = Sweep(heap, InUse(producer, rings'[RAW], popped))
    /\ snap' = Sweep(snap, InUse(producer, rings'[RAW], popped))
    /\ UNCHANGED <<nextFrame, producer, popped, held>>
    /\ MemFrame

InitStorage ==
    /\ \E c \in 1 .. MaxCapacity : InitRingVars(c, 1)
    /\ InitProgVars("storage", 1, 1, 1)
    /\ StagesIdle

NextStorage ==
    \/ MemGetFrame
    \/ MemPush
    \/ MemPop
    \/ \E h \in popped : MemRelease(h)
    \/ MemClear

SpecStorage == InitStorage /\ [][NextStorage]_vars

\* ------------------------------------------------------------ properties
\* the frames queued in a ring, oldest first
Contents(r) ==
    [i \in 1 .. r.m_size |-> r.m_frames[(r.m_tail + (i - 1)) % r.m_capacity]]

NoDuplicates(s) == \A i, j \in 1 .. Len(s) : i # j => s[i] # s[j]

\* C1: the frames returned by successful pops, followed by the frames still
\* queued, are exactly the frames accepted by successful pushes, in push
\* order; no frame is returned twice, no empty frame is returned, and a frame
\* whose push returned false is never returned.
C1_FifoOrder ==
    \A rid \in Rings :
        /\ returned[rid] \o Contents(rings[rid]) = accepted[rid]
        /\ NoDuplicates(returned[rid])
        /\ \A i \in 1 .. Len(returned[rid]) :
              returned[rid][i] # NoFrame /\ returned[rid][i] \notin rejected

C1_Witness ==
    /\ Len(returned[RAW]) >= 1
    /\ rings[RAW].m_size > 0
    /\ rejected # {}

\* C2: 0 <= size() <= capacity, size() is the number of successful pushes
\* minus the number of successful pops since construction or the last
\* clear(), and full() and empty() are never both true.
C2_SizeAccurate ==
    \A rid \in Rings :
        /\ 0 <= size(rings[rid]) /\ size(rings[rid]) <= capacity(rings[rid])
        /\ size(rings[rid]) = Len(accepted[rid]) - Len(returned[rid])
        /\ ~(full(rings[rid]) /\ empty(rings[rid]))

C2_Witness ==
    /\ full(rings[RAW])
    /\ Len(returned[RAW]) >= 1
    /\ \E t \in Threads : call[t].op = "push"

C4_NoLostWakeup ==
    /\ [][\A t \in Threads :
            /\ (call[t].op = "push" /\ call'[t].op = "none")
               => ~full(rings[call[t].ring])
            /\ (call[t].op = "pop" /\ call'[t].op = "none")
               => ~empty(rings[call[t].ring])]_vars
    /\ \A t \in Threads :
          /\ []<>(call[t].op # "push" \/ full(rings[RAW]))
          /\ []<>(call[t].op # "pop" \/ empty(rings[RAW]))

C4_Witness ==
    /\ event.op = "push" /\ event.resumed /\ event.status = "ok"
    /\ \E t \in Threads : call[t].op = "push" /\ call[t].st = "waiting"
    /\ \E t \in Threads : call[t].op = "pop"

\* C5: clear() leaves the ring in the state of a freshly constructed ring of
\* the same capacity (size 0, head and tail 0, every slot empty), and a second
\* clear() changes nothing.
C5_ClearIsFresh ==
    [][event'.op = "clear"
       => /\ rings'[event'.ring] = FrameBuffer(capacity(rings[event'.ring]))
          /\ Released(rings'[event'.ring]) = rings'[event'.ring]]_vars

C5_Witness ==
    /\ event.op = "clear"
    /\ \E t \in Threads : call[t].op = "push" /\ call[t].st = "notified"
    /\ rejected # {}

\* C6: whenever m_running is false, a worker thread suspended inside a
\* blocking ring call is eventually unblocked and leaves its loop.
C6_StopUnblocks ==
    \A w \in Workers :
        (~m_running /\ call[w].op # "none" /\ call[w].st = "waiting")
            ~> (wpc[w] \in {"done", "none"})

\* the program state of the pipeline outside the caller's own position
Lifecycle ==
    <<m_camera, m_upscaler, m_display, m_buffer, m_config, m_running, thr,
      wpc, held, rings, call, accepted, returned, rejected, nextFrame,
      initRet, stopReturned>>

\* C7: once stop() has returned on a pipeline that was running, the three
\* worker threads have terminated and are joined, the ring is empty, and no
\* worker performs a ring push/pop, an upscale or a render until the next
\* start().
C7_StoppedQuiescent ==
    /\ [](stopReturned =>
            /\ \A w \in Workers :
                  thr[w] = "null" /\ wpc[w] = "none" /\ call[w].op = "none"
            /\ ~m_running
            /\ m_buffer # "null" /\ empty(rings[BUF])
            /\ rings[BUF] = FrameBuffer(capacity(rings[BUF])))
    /\ [][(stopReturned /\ stopReturned') => event'.thread \notin Workers]_vars

C7_Witness ==
    /\ stopReturned /\ event.op = "stop"
    /\ rejected # {}
    /\ nextFrame > MaxFrames

\* C8: a start() that follows an initialize() that returned false returns
\* false and spawns no worker thread.
C8_FailedInitBlocksStart ==
    [][(event'.op = "start" /\ initRet = "fail")
       => (event'.status = "fail" /\ thr' = thr /\ wpc' = wpc
           /\ m_running' = m_running)]_vars

\* C9: start() on a running pipeline returns true and changes nothing; every
\* step of a stop() called on a pipeline that is not running leaves the
\* components, the running flag, the threads and the ring unchanged.
C9_RedundantCallsNoOp ==
    [][/\ (event'.op = "start" /\ m_running)
          => (event'.status = "ok" /\ UNCHANGED <<Lifecycle, ctl>>)
       /\ (event'.op = "stop_begin" /\ ~m_running) => UNCHANGED Lifecycle
       /\ (event'.op \in {"join", "stop"} /\ ~stopWasRunning)
          => UNCHANGED Lifecycle]_vars

C9_Witness ==
    /\ event.op = "start" /\ event.status = "ok"
    /\ m_running
    /\ \A w \in Workers : thr[w] = "running"
    /\ wpc[Processing] = "render"

\* C10: the capture thread is never suspended in a wait on the ring: the push
\* of captureLoop and of capture_thread returns at once, whatever the consumer
\* does.
C10_CaptureNeverWaits ==
    /\ call[Capture].op = "none"
    /\ event.thread = Capture /\ event.op = "push" => event.status \in {"ok", "fail"}

C10_Witness ==
    /\ prog = "cli"
    /\ event.thread = Capture /\ event.op = "push" /\ event.blocking
    /\ event.status = "ok"
    /\ g_frames_dropped > 0
    /\ full(rings[RAW])

\* the frames a producer offered to ring rid and that the ring did not take:
\* a frame refused by the processed ring went through the raw ring before
Range(s) == {s[i] : i \in 1 .. Len(s)}
NotEnqueued(rid) ==
    IF rid = PROCESSED THEN rejected \cap Range(returned[RAW])
    ELSE rejected \ Range(returned[RAW])

\* C11: in the command-line pipeline every frame a producer offered to a ring
\* and did not enqueue is counted in g_frames_dropped: the frames not taken by
\* the raw ring plus the frames not taken by the processed ring are as many as
\* the dropped-frame counter, and the enqueued frames are as many as the
\* captured / processed counters.
C11_DropsCounted ==
    prog = "cli" =>
        /\ g_frames_captured = Len(accepted[RAW])
        /\ g_frames_processed = Len(accepted[PROCESSED])
        /\ g_frames_dropped
              = Cardinality(NotEnqueued(RAW)) + Cardinality(NotEnqueued(PROCESSED))

\* C12: once the capture loop of the command-line pipeline has found the file
\* source exhausted and cleared g_running, the capture, processing and display
\* threads all eventually leave their loops (so the joins of main() return).
C12_EofStopsAll ==
    (prog = "cli" /\ ~source_open /\ ~g_running)
        ~> (\A w \in Workers : wpc[w] = "done")

\* C13: when upscale() fails for a frame, the processing loop (processingLoop
\* of the Pipeline and processing_thread of main.cpp) keeps that frame and its
\* next step hands it downstream (renderFrame, or the push into the processed
\* ring); it neither leaves the loop nor goes back for the next frame without
\* delivering.
C13_UpscaleFailureDelivers ==
    [][(event'.op = "upscale" /\ event'.status = "fail")
       => /\ wpc'[Processing] \in {"render", "push"}
          /\ held'[Processing] = event'.frame]_vars

\* C14: whenever Upscaler::upscale returns true, its output has the target
\* width and height of the upscaler, and whenever DnnSuperRes::upscale returns
\* true on an object with a target size set, its output has that size: for
\* every algorithm, backend, model type and input size, the oversized inputs,
\* and every fallback taken after a failure of the inference or of CUDA.
C14_OutputHasTargetSize ==
    [][/\ (upEvent'.op = "upscale" /\ upEvent'.ret)
          => /\ upEvent'.out.cols = upscaler.m_target_width
             /\ upEvent'.out.rows = upscaler.m_target_height
       /\ (/\ upEvent'.op = "dnn_upscale" /\ upEvent'.ret
           /\ superres.m_target_width > 0 /\ superres.m_target_height > 0)
          => /\ upEvent'.out.cols = superres.m_target_width
             /\ upEvent'.out.rows = superres.m_target_height]_vars

\* C15: adjustQualityForPerformance(processing_time, target_time) changes the
\* upscaler if and only if the algorithm is SUPER_RES or REAL_ESRGAN and
\* processing_time > 1.5 * target_time: then it returns true, the algorithm
\* becomes BICUBIC and an initialized upscaler gets a BICUBIC implementation;
\* otherwise it returns false and the upscaler is unchanged.
C15_DemotesOnlyUnderLoad ==
    [][upEvent'.op = "adjustQualityForPerformance"
       => IF /\ upscaler.m_algorithm \in {"SUPER_RES", "REAL_ESRGAN"}
             /\ 2 * upEvent'.processing_time > 3 * upEvent'.target_time
          THEN /\ upEvent'.ret
               /\ upscaler'.m_algorithm = "BICUBIC"
               /\ upscaler.m_initialized
                  => /\ upscaler'.m_impl # Null
                     /\ upscaler'.m_impl[1].m_algorithm = "BICUBIC"
          ELSE /\ ~upEvent'.ret
               /\ upscaler' = upscaler]_vars

\* an upscaler that upscales every non-empty frame, whatever the inference
\* and the CUDA calls do, on the CPU backend
UsableOnCPU(u) ==
    /\ u.m_initialized
    /\ ~isUsingGPU(u)
    /\ u.m_impl # Null => u.m_impl[1].backend = "cpu"
    /\ \A dims \in InputSizes, inference \in Inferences, cuda \in CudaOutcomes :
          dims[1] > 0 => upscale(u, Mat(dims[1], dims[2], <<>>), inference, cuda).ret

\* what construction and initialize() do when the GPU was requested and is
\* not available
GpuRequestDowngraded ==
    /\ (upEvent'.op = "construct" /\ upEvent'.use_gpu)
       => ~isUsingGPU(upscaler')
    /\ (upEvent'.op = "initialize" /\ upEvent'.width > 0 /\ upEvent'.height > 0)
       => (upEvent'.ret /\ UsableOnCPU(upscaler'))

\* C16 as stated: without a GPU, construction with use_gpu = true,
\* setUseGPU(true) and initialize() with a valid target size all report
\* success and leave the upscaler on the CPU backend, and isUsingGPU() is true
\* only if a GPU is available.
C16_GpuRequestNeverFails ==
    /\ [][~isGPUAvailable
          => /\ GpuRequestDowngraded
             /\ (upEvent'.op = "setUseGPU" /\ upEvent'.use_gpu)
                => (upEvent'.ret /\ ~isUsingGPU(upscaler'))]_vars
    /\ [](isUsingGPU(upscaler) => isGPUAvailable)

\* C16 amended: without a GPU, construction with use_gpu = true and
\* initialize() with a valid target size succeed on the CPU backend;
\* setUseGPU(true) returns false and leaves the upscaler as it was;
\* isUsingGPU() is true only if a GPU is available.
C16_GpuRequestDowngrades ==
    /\ [][~isGPUAvailable
          => /\ GpuRequestDowngraded
             /\ (upEvent'.op = "setUseGPU" /\ upEvent'.use_gpu)
                => (~upEvent'.ret /\ upscaler' = upscaler)]_vars
    /\ [](isUsingGPU(upscaler) => isGPUAvailable)

C16_Witness ==
    /\ gpu_available = "no_device"
    /\ upEvent.op = "setUseGPU" /\ upEvent.use_gpu /\ ~upEvent.ret
    /\ UsableOnCPU(upscaler)
    /\ upscaler.m_impl # Null

\* the inference of a call failed: it threw, or (ONNX network only) it
\* returned a tensor that is not 4-dimensional
InferenceFailed(d, inference) ==
    \/ inference \in {"throws", "throws_twice"}
    \/ inference = "bad_shape" /\ d.m_model_type = "REAL_ESRGAN"

\* the image is the input resampled: resize (and text overlay) stages only
Resampled(img) ==
    /\ \E i \in 1 .. Len(img.stages) : img.stages[i].op = "resize"
    /\ \A i \in 1 .. Len(img.stages) : img.stages[i].op \in {"resize", "putText"}

\* C17: when the inference of the neural path throws or returns a tensor of
\* unexpected shape, upscale() on an initialized network and a non-empty
\* frame still returns true and its output is a resampling of the input.
C17_NeuralFallbackSucceeds ==
    [][/\ (/\ upEvent'.op = "dnn_upscale"
           /\ superres.m_initialized /\ ~IsEmpty(upEvent'.input)
           /\ InferenceFailed(superres, upEvent'.inference))
          => (upEvent'.ret /\ Resampled(upEvent'.out))
       /\ (/\ upEvent'.op = "upscale"
           /\ upscaler.m_algorithm = "SUPER_RES" /\ upscaler.m_dnn_sr # Null
           /\ ~IsEmpty(upEvent'.input)
           /\ InferenceFailed(upscaler.m_dnn_sr[1], upEvent'.inference))
          => (upEvent'.ret /\ Resampled(upEvent'.out))]_vars

\* the interpolation kernel that bears the name of a plain algorithm
MatchingKernel(algorithm) ==
    CASE algorithm = "NEAREST" -> "INTER_NEAREST"
      [] algorithm = "BILINEAR" -> "INTER_LINEAR"
      [] algorithm = "LANCZOS" -> "INTER_LANCZOS4"

\* C18: for NEAREST, BILINEAR and LANCZOS, on the CPU and on the GPU
\* implementation, upscale() applies to its (working) input exactly one
\* stage: a resize to the target size with the kernel that matches the
\* algorithm, and no filtering pass before or after it.
C18_PlainResamplingOnly ==
    [][(/\ upEvent'.op = "upscale" /\ upEvent'.ret
        /\ upscaler.m_impl # Null
        /\ upscaler.m_algorithm \in {"NEAREST", "BILINEAR", "LANCZOS"})
       => /\ upEvent'.out.stages
               = Append(WorkingInput(upEvent'.input).stages,
                        Stage("resize", MatchingKernel(upscaler.m_algorithm)))
          /\ upEvent'.out.cols = upscaler.m_target_width
          /\ upEvent'.out.rows = upscaler.m_target_height]_vars

\* a process() call on an initialized object with a non-empty frame
ProcessedFrame ==
    /\ tcEvent.op = "process"
    /\ tcEvent.before.m_initialized
    /\ tcEvent.frame # NoStreamFrame

\* C19: process() on an initialized TemporalConsistency whose history holds
\* zero frames or exactly one frame outputs the input frame unchanged: no
\* buffered frame is blended into it.
C19_ShortHistoryPassesThrough ==
    (ProcessedFrame /\ Len(tcEvent.before.m_frame_buffer) <= 1)
        => tcEvent.out = TcOut(tcEvent.frame, <<>>)

\* the last process() call measured a difference above scene_change_threshold
SceneChangeMeasured ==
    /\ ProcessedFrame
    /\ tcEvent.measured # <<>>
    /\ tcEvent.measured[1] > tcEvent.before.m_config.scene_change_threshold

\* C20: a process() call whose frame differs from the last buffered frame by
\* more than scene_change_threshold leaves exactly the current frame buffered
\* (1 colour frame, 1 grayscale frame, 0 flows) and outputs that frame
\* unchanged; and every frame blended into an output of process() was taken
\* after the last scene change detected before that output.
C20_SceneChangeCutsHistory ==
    /\ SceneChangeMeasured
          => /\ temporal.m_frame_buffer = <<tcEvent.frame>>
             /\ temporal.m_gray_buffer = <<tcEvent.frame>>
             /\ temporal.m_flow_buffer = <<>>
             /\ tcEvent.out = TcOut(tcEvent.frame, <<>>)
    /\ tcEvent.op = "process"
          => \A i \in 1 .. Len(tcEvent.out.blended) :
                tcEvent.out.blended[i].shot = tcEvent.out.frame.shot

\* a scene change detected with two frames and a flow field in the history
C20_Witness ==
    /\ SceneChangeMeasured
    /\ Len(tcEvent.before.m_frame_buffer) >= 2
    /\ tcEvent.before.m_flow_buffer # <<>>

\* C21: whenever AdaptiveSharpening::process() returns false for a non-empty
\* input, the output frame equals the input frame.
C21_FailedSharpeningReturnsInput ==
    (fxEvent.op = "as_process" /\ ~fxEvent.ret /\ ~IsEmpty(fxEvent.input))
        => fxEvent.out = fxEvent.input

\* the last call was a SelectiveBilateral::process that ran one of its branches
SbProcessed == fxEvent.op = "sb_process" /\ fxEvent.mode # "none"

\* a step of the selective branch failed
SelectiveFailed ==
    /\ SbProcessed /\ fxEvent.mode = "selective"
    /\ fxEvent.failed \cap {"detail_mask", "blend"} # {}

\* the multi-scale branch threw a cv::Exception
MultiscaleThrew ==
    SbProcessed /\ fxEvent.mode = "multiscale" /\ "pyramid" \in fxEvent.failed

\* createDetailMask failed inside the blend of the multi-scale branch
MultiscaleMaskFailed ==
    /\ SbProcessed /\ fxEvent.mode = "multiscale"
    /\ "pyramid" \notin fxEvent.failed /\ "detail_mask" \in fxEvent.failed
    /\ fxEvent.levels >= 2 /\ ~fxEvent.ended[1].use_gpu

C23_HistoryShape ==
    (/\ tcEvent.op \in {"process", "reset"}
     /\ temporal.m_initialized
     /\ temporal.m_config.buffer_size >= 1)
        => /\ Len(temporal.m_gray_buffer) = Len(temporal.m_frame_buffer)
           /\ Len(temporal.m_frame_buffer) <= temporal.m_config.buffer_size
           /\ temporal.m_frame_buffer # <<>>
                 => Len(temporal.m_flow_buffer) = Len(temporal.m_frame_buffer) - 1

\* the pixel buffers the slots of the ring refer to
SlotRefs == {rings[RAW].m_frames[i] : i \in DOMAIN rings[RAW].m_frames} \ {NoFrame}

\* C24: frame storage is never shared across the ring: no slot refers to the
\* buffer of a frame popFrame has returned, the producer's own buffer is
\* referred to by no slot and by no popped frame, and every queued and every
\* popped frame still holds the picture it held when it was pushed or popped,
\* whatever the producer has written into its own buffer since.
C24_StorageNotShared ==
    prog = "storage" =>
        /\ \A h \in popped : h.ref \notin SlotRefs /\ heap[h.ref] = h.frame
        /\ producer \notin SlotRefs \cup {h.ref : h \in popped}
        /\ \A i \in 1 .. Len(Contents(rings[RAW])) :
              heap[Contents(rings[RAW])[i]] = snap[Contents(rings[RAW])[i]]

\* the producer has overwritten its buffer in place while an earlier frame is
\* queued and another one is held by the consumer
C24_Witness ==
    /\ prog = "storage" /\ event.op = "getFrame"
    /\ ~empty(rings[RAW]) /\ popped # {}
    /\ \A i \in 1 .. Len(Contents(rings[RAW])) :
          snap[Contents(rings[RAW])[i]] < heap[producer]
    /\ \A h \in popped : h.frame < heap[producer]

\* C25: a process() call works on one configuration from start to end: the
\* configuration a SelectiveBilateral::process call reads last is the one it
\* read first, whatever setConfig() installs meanwhile.
C25_ProcessSeesOneConfig == SbProcessed => fxEvent.ended = fxEvent.began

\* C26: the multi-scale mode of SelectiveBilateral::process builds between 1
\* and 5 pyramid levels, whatever initialize() and setConfig() calls came
\* before (here even for calls that no setConfig() interleaves with).
C26_PyramidLevelsBounded ==
    (SbProcessed /\ fxEvent.mode = "multiscale" /\ fxEvent.ended = fxEvent.began
        /\ "pyramid" \notin fxEvent.failed)
        => fxEvent.levels \in 1 .. 5

\* C27: initialize() works on the configuration the setters left in the
\* Pipeline object (ring capacity n, target w x h), and a setter called while
\* the pipeline runs changes nothing.
C27_SettersConfigureInitialize ==
    /\ (event.op = "initialize" /\ pipeline.m_members = "live")
          => /\ m_config = pipeline.m_config
             /\ event.status = "ok"
                   => capacity(rings[BUF]) = pipeline.m_config.buffer_size
    /\ (event.op \in {"setBufferSize", "setTargetResolution"} /\ m_running)
          => event.status = "fail"

\* the output of the 'Upscaler not initialized' branch of upscale()
\* (upscaler.cpp 604-612) for the last upscale() call
UninitializedOutput ==
    Resize(WorkingInput(upEvent.input), upscaler.m_target_width,
           upscaler.m_target_height, "INTER_LINEAR")

\* C28: upscale() on an initialized Upscaler never takes the 'Upscaler not
\* initialized' linear-resize branch: whenever an algorithm other than
\* BILINEAR is selected the output is not the plain linear resize.
C28_InitializedNeverFallsBack ==
    (/\ upEvent.op = "upscale" /\ ~IsEmpty(upEvent.input)
     /\ upscaler.m_initialized /\ upscaler.m_algorithm # "BILINEAR")
        => upEvent.out # UninitializedOutput

\* the last step was a worker thread using the Timer or the latency/FPS
\* atomics of Pipeline through m_timer_ref, m_latency_ref, m_fps_ref: every
\* step of captureLoop and processingLoop but the test of m_running
WorkerUsedMetrics ==
    /\ event.thread \in {Capture, Processing}
    /\ event.op \notin {"loop", "exit"}

\* C29: when a running Pipeline is destroyed, its worker threads are stopped
\* and joined before the members they refer to are destroyed: no worker uses
\* the Timer or the latency/FPS atomics once their destruction has begun.
C29_NoWorkerUseAfterDestruction ==
    WorkerUsedMetrics => pipeline.m_members = "live"

\* C30: TemporalConsistency::process returns for every buffer_size >= 0, 0
\* and 1 included: its trimming loops end without popping an empty deque.
C30_ProcessReturns ==
    (tcEvent.op = "process" /\ tcEvent.before.m_config.buffer_size >= 0)
        => tcEvent.outcome = "returned"
====
